---- MODULE Spec2Model ----
(***************************************************************************)
(* Model of the grade/collection overlay app: the admin route action       *)
(* (syncGradesBatch, deleteCollection, saveRow) of app/routes/app._index   *)
(* and the sync driver of GradeCollectionPage, over the Mapping Store      *)
(* (product_grade_collection), the Source Table (master database colours)  *)
(* and the Catalog Service (Shopify Admin GraphQL).                        *)
(***************************************************************************)
EXTENDS Integers, Sequences, FiniteSets, Bags, TLC

VARIABLES
    shopify,  \* the Catalog Service: the products, with their collection memberships
    master,   \* the Source Table rows, in range order
    store,    \* the Mapping Store: a bag of rows (the table has a surrogate id)
    srv,      \* the syncGradesBatch invocations running on the server, by slot
    ui,       \* the React state of GradeCollectionPage that drives the sync
    run,      \* history: the chain of successful batches since the run began
    replay,   \* history: the batch a caller is about to run again, and the store it left
    last      \* history: what the latest step did and returned

vars == <<shopify, master, store, srv, ui, run, replay, last>>

(***************************** bounds **************************************)
MaxRows == 3        \* longest Source Table
MaxLimit == 2       \* largest batch size the driver is configured with
MaxInFlight == 1    \* server invocations that may run at once

(***************************** values **************************************)
NULL == "NULL"
None == <<>>
Some(x) == <<x>>

Min(a, b) == IF a < b THEN a ELSE b
Max(a, b) == IF a > b THEN a ELSE b

\* String(v ?? "").trim()
cleanText(v) ==
    CASE v = " " -> ""
      [] v = " a" -> "a"
      [] v = NULL -> ""
      [] OTHER -> v

\* String.prototype.toLowerCase on the strings of the model
toLowerCase(s) ==
    CASE s = "A" -> "a"
      [] s = "S" -> "s"
      [] s = "M" -> "m"
      [] s = "L" -> "l"
      [] OTHER -> s

\* PostgREST ilike: a case-insensitive LIKE; "_" matches any one character.
\* Every product handle of the model is one character long.
ilike(value, pattern) ==
    /\ value # NULL
    /\ \/ pattern = "_"
       \/ toLowerCase(value) = toLowerCase(pattern)

RECURSIVE uniqFrom(_, _, _)
uniqFrom(arr, i, out) ==
    IF i > Len(arr) THEN out
    ELSE LET s == cleanText(arr[i])
             k == toLowerCase(s)
         IN IF s = "" \/ \E j \in 1..Len(out) : toLowerCase(out[j]) = k
            THEN uniqFrom(arr, i + 1, out)
            ELSE uniqFrom(arr, i + 1, Append(out, s))

\* a merge that keeps every size it is given
uniqStringsKeepingAll(arr) == arr

uniqStrings(arr) == uniqFrom(arr, 1, <<>>)


Perms(S) ==
    {f \in [1..Cardinality(S) -> S] : \A x \in S : \E i \in DOMAIN f : f[i] = x}

(***************************** Source Table ********************************)
SourceRows == {
    [Handle |-> "a", Grade |-> ""], [Handle |-> "a", Grade |-> "7"],
    [Handle |-> "A", Grade |-> "7"], [Handle |-> "b", Grade |-> ""],
    [Handle |-> "_", Grade |-> "7"], [Handle |-> " ", Grade |-> "7"] }
Tables(n) == UNION {[1..k -> SourceRows] : k \in 0..n}

\* .select('"Handle","Grade"', {count: "exact"}).range(offset, offset + limit - 1)
masterRange(offset, limit) ==
    SubSeq(master, offset + 1, Min(offset + limit, Len(master)))

(***************************** Catalog Service *****************************)
Products == {
    [id |-> "P1", handle |-> "a", sizes |-> <<"S", "s", "M">>, collections |-> <<"c1", "c2">>],
    [id |-> "P2", handle |-> "b", sizes |-> <<>>, collections |-> <<>>] }

ProductIds == {p.id : p \in Products}
CollectionIds == {"c1", "c2"}
productOf(id) == CHOOSE p \in shopify : p.id = id

\* de-dupe collections: the first of each id is kept
RECURSIVE uniqCols(_, _)
uniqCols(cols, out) ==
    IF cols = <<>> THEN out
    ELSE uniqCols(Tail(cols),
                  IF \E i \in DOMAIN out : out[i] = Head(cols)
                  THEN out ELSE Append(out, Head(cols)))

\* productByHandle, with the sizes and the collections de-duplicated as the
\* reader returns them
fetchProductByHandleWithCollectionsAndSizes(handle) ==
    IF \E p \in shopify : p.handle = handle
    THEN LET p == CHOOSE q \in shopify : q.handle = handle
         IN Some([id |-> p.id, handle |-> p.handle,
                  sizes |-> uniqStrings(p.sizes),
                  collections |-> uniqCols(p.collections, <<>>)])
    ELSE None

(***************************** Mapping Store *******************************)
RECURSIVE SumCopies(_, _)
SumCopies(R, B) ==
    IF R = {} THEN 0
    ELSE LET r == CHOOSE x \in R : TRUE
         IN CopiesIn(r, B) + SumCopies(R \ {r}, B)

storeRows == BagToSet(store)

\* .ilike("product_handle", handleRaw)
matching(B, handleRaw) == {r \in BagToSet(B) : ilike(r.handle, handleRaw)}

\* an update filtered on the handle as it is written
storeUpdateExact(B, handleRaw, grade, size) ==
    LET S == BagToSet(B)
        upd(r) == IF r.handle = handleRaw
                  THEN [r EXCEPT !.grade = grade, !.size = size] ELSE r
        T == {upd(r) : r \in S}
    IN [t \in T |-> SumCopies({r \in S : upd(r) = t}, B)]

\* .update({grade, size, updated_at}).ilike("product_handle", handleRaw)
storeUpdate(B, handleRaw, grade, size) ==
    LET S == BagToSet(B)
        upd(r) == IF ilike(r.handle, handleRaw)
                  THEN [r EXCEPT !.grade = grade, !.size = size] ELSE r
        T == {upd(r) : r \in S}
    IN [t \in T |-> SumCopies({r \in S : upd(r) = t}, B)]

\* .delete() with a filter
storeDelete(B, gone) ==
    LET S == BagToSet(B) \ gone IN [r \in S |-> CopiesIn(r, B)]

sameKey(r, q) == r.pid = q.pid /\ r.cid = q.cid

\* A statement whose records repeat a conflict key is rejected by the store.
upsertRejected(records) ==
    \E i, j \in DOMAIN records : i # j /\ sameKey(records[i], records[j])

\* .upsert(records, {onConflict: "shopify_product_id,collection_id"})
\* an upsert that adds the records without resolving the conflict key
storeUpsertAppending(B, records) ==
    B (+) SetToBag({records[i] : i \in DOMAIN records})

storeUpsert(B, records) ==
    LET recs == {records[i] : i \in DOMAIN records}
    IN storeDelete(B, {r \in BagToSet(B) : \E q \in recs : sameKey(r, q)}) (+) SetToBag(recs)

(***************************** syncGradesBatch ****************************)
ZeroTotals ==
    [batches |-> 0, uniqueHandles |-> 0, updatedHandles |-> 0, updatedRows |-> 0,
     insertedProducts |-> 0, insertedRows |-> 0, missingInShopify |-> 0]

ZeroCounts ==
    [updatedHandles |-> 0, updatedRows |-> 0, insertedProducts |-> 0,
     insertedRows |-> 0, missingInShopify |-> 0]

Slots == DOMAIN srv

IdleProc ==
    [pc |-> "idle", offset |-> 0, limit |-> 0, runTotals |-> ZeroTotals,
     masterTotal |-> None, batchFetched |-> 0, keys |-> <<>>, idx |-> 0,
     c |-> ZeroCounts, existing |-> <<>>, prod |-> None]

\* offset = Math.max(0, toInt(offset)); limit = Math.max(1, Math.min(200, toInt(limit)))
newInvocation(form) ==
    [IdleProc EXCEPT !.pc = "page",
                     !.offset = Max(0, form.offset),
                     !.limit = Max(1, Min(200, form.limit)),
                     !.runTotals = form.runTotals]

\* unique handle => grade (prefer non-empty grade), in Map insertion order
RECURSIVE handleToGradeFrom(_, _, _)
handleToGradeFrom(rows, i, acc) ==
    IF i > Len(rows) THEN acc
    ELSE LET handleRaw == cleanText(rows[i].Handle)
             key == toLowerCase(handleRaw)
             grade == cleanText(rows[i].Grade)
             at == {j \in DOMAIN acc : acc[j].key = key}
         IN IF handleRaw = "" THEN handleToGradeFrom(rows, i + 1, acc)
            ELSE IF at = {}
            THEN handleToGradeFrom(rows, i + 1,
                     Append(acc, [key |-> key, handleRaw |-> handleRaw, grade |-> grade]))
            ELSE LET j == CHOOSE x \in at : TRUE
                 IN IF acc[j].grade = "" /\ grade # ""
                    THEN handleToGradeFrom(rows, i + 1, [acc EXCEPT ![j].grade = grade])
                    ELSE handleToGradeFrom(rows, i + 1, acc)

\* a map in which every later non-empty grade replaces the kept one
RECURSIVE lastGradeFrom(_, _, _)
lastGradeFrom(rows, i, acc) ==
    IF i > Len(rows) THEN acc
    ELSE LET handleRaw == cleanText(rows[i].Handle)
             key == toLowerCase(handleRaw)
             grade == cleanText(rows[i].Grade)
             at == {j \in DOMAIN acc : acc[j].key = key}
         IN IF handleRaw = "" THEN lastGradeFrom(rows, i + 1, acc)
            ELSE IF at = {}
            THEN lastGradeFrom(rows, i + 1,
                     Append(acc, [key |-> key, handleRaw |-> handleRaw, grade |-> grade]))
            ELSE LET j == CHOOSE x \in at : TRUE
                 IN IF grade # ""
                    THEN lastGradeFrom(rows, i + 1, [acc EXCEPT ![j].grade = grade])
                    ELSE lastGradeFrom(rows, i + 1, acc)

handleToGradeLastWins(rows) == lastGradeFrom(rows, 1, <<>>)

handleToGrade(rows) == handleToGradeFrom(rows, 1, <<>>)

\* an empty page that answers with fresh totals
emptyResultFresh(p) ==
    [ok |-> TRUE, intent |-> "syncGradesBatch", done |-> TRUE,
     summary |-> [offset |-> p.offset, limit |-> p.limit, batchFetched |-> 0,
                  uniqueHandles |-> 0, updatedHandles |-> 0, updatedRows |-> 0,
                  insertedProducts |-> 0, insertedRows |-> 0, missingInShopify |-> 0,
                  masterTotal |-> p.masterTotal, nextOffset |-> p.offset, hasMore |-> FALSE],
     runTotals |-> ZeroTotals]

\* the result of a page with no rows
emptyResult(p) ==
    [ok |-> TRUE, intent |-> "syncGradesBatch", done |-> TRUE,
     summary |-> [offset |-> p.offset, limit |-> p.limit, batchFetched |-> 0,
                  uniqueHandles |-> 0, updatedHandles |-> 0, updatedRows |-> 0,
                  insertedProducts |-> 0, insertedRows |-> 0, missingInShopify |-> 0,
                  masterTotal |-> p.masterTotal, nextOffset |-> p.offset, hasMore |-> FALSE],
     runTotals |-> p.runTotals]

\* totals that take the batch's updated rows without adding them to the run's
newTotalsDropping(runTotals, uniqueHandles, c) ==
    [batches |-> runTotals.batches + 1,
     uniqueHandles |-> runTotals.uniqueHandles + uniqueHandles,
     updatedHandles |-> runTotals.updatedHandles + c.updatedHandles,
     updatedRows |-> c.updatedRows,
     insertedProducts |-> runTotals.insertedProducts + c.insertedProducts,
     insertedRows |-> runTotals.insertedRows + c.insertedRows,
     missingInShopify |-> runTotals.missingInShopify + c.missingInShopify]

newTotals(runTotals, uniqueHandles, c) ==
    [batches |-> runTotals.batches + 1,
     uniqueHandles |-> runTotals.uniqueHandles + uniqueHandles,
     updatedHandles |-> runTotals.updatedHandles + c.updatedHandles,
     updatedRows |-> runTotals.updatedRows + c.updatedRows,
     insertedProducts |-> runTotals.insertedProducts + c.insertedProducts,
     insertedRows |-> runTotals.insertedRows + c.insertedRows,
     missingInShopify |-> runTotals.missingInShopify + c.missingInShopify]

\* a batch that reports more rows when nextOffset has just reached the total
batchResultLate(p, c) ==
    LET nextOffset == p.offset + p.limit
        total == p.masterTotal
        hasMore == IF total = None THEN TRUE ELSE nextOffset <= total[1]
    IN [ok |-> TRUE, intent |-> "syncGradesBatch", done |-> ~hasMore,
        summary |-> [offset |-> p.offset, limit |-> p.limit,
                     batchFetched |-> p.batchFetched, uniqueHandles |-> Len(p.keys),
                     updatedHandles |-> c.updatedHandles, updatedRows |-> c.updatedRows,
                     insertedProducts |-> c.insertedProducts,
                     insertedRows |-> c.insertedRows,
                     missingInShopify |-> c.missingInShopify,
                     masterTotal |-> total, nextOffset |-> nextOffset, hasMore |-> hasMore],
        runTotals |-> newTotals(p.runTotals, Len(p.keys), c)]

\* a batch that reports no more rows when the total is unknown
batchResultDoneWhenUnknown(p, c) ==
    LET nextOffset == p.offset + p.limit
        total == p.masterTotal
        hasMore == IF total = None THEN FALSE ELSE nextOffset < total[1]
    IN [ok |-> TRUE, intent |-> "syncGradesBatch", done |-> ~hasMore,
        summary |-> [offset |-> p.offset, limit |-> p.limit,
                     batchFetched |-> p.batchFetched, uniqueHandles |-> Len(p.keys),
                     updatedHandles |-> c.updatedHandles, updatedRows |-> c.updatedRows,
                     insertedProducts |-> c.insertedProducts,
                     insertedRows |-> c.insertedRows,
                     missingInShopify |-> c.missingInShopify,
                     masterTotal |-> total, nextOffset |-> nextOffset, hasMore |-> hasMore],
        runTotals |-> newTotals(p.runTotals, Len(p.keys), c)]

\* the result of a batch whose loop over the keys has ended with counts c;
\* total = typeof masterTotal === "number" ? masterTotal : null
batchResult(p, c) ==
    LET nextOffset == p.offset + p.limit
        total == p.masterTotal
        hasMore == IF total = None THEN TRUE ELSE nextOffset < total[1]
    IN [ok |-> TRUE, intent |-> "syncGradesBatch", done |-> ~hasMore,
        summary |-> [offset |-> p.offset, limit |-> p.limit,
                     batchFetched |-> p.batchFetched, uniqueHandles |-> Len(p.keys),
                     updatedHandles |-> c.updatedHandles, updatedRows |-> c.updatedRows,
                     insertedProducts |-> c.insertedProducts,
                     insertedRows |-> c.insertedRows,
                     missingInShopify |-> c.missingInShopify,
                     masterTotal |-> total, nextOffset |-> nextOffset, hasMore |-> hasMore],
        runTotals |-> newTotals(p.runTotals, Len(p.keys), c)]

\* an error result that still carries running totals
errorResultWithTotals ==
    [ok |-> FALSE, intent |-> "syncGradesBatch", error |-> "error",
     runTotals |-> ZeroTotals]

errorResult == [ok |-> FALSE, intent |-> "syncGradesBatch", error |-> "error"]

(***************************** the sync driver *****************************)
\* history of a caller that runs one batch twice: whether no other writer has
\* touched the store since the batch was invoked, the store the first run left,
\* whether the second run has returned, and the store the running batch began on
NoReplay == [clean |-> FALSE, snap |-> None, done |-> FALSE, from |-> None]

\* history of the chain: a submission at offset 0 with zero totals begins a chain,
\* a submission at the last returned nextOffset with the last returned totals
\* continues it, any other submission is outside a chain; auto tells whether
\* the submission the fetcher awaits or has last awaited was made with
\* auto-sync on
NewRun ==
    [fromZero |-> TRUE, ended |-> FALSE, calls |-> 0, sum |-> ZeroTotals,
     next |-> 0, totals |-> ZeroTotals, auto |-> FALSE]

NoRun == [NewRun EXCEPT !.fromZero = FALSE]

runOnSubmit(form) ==
    IF form.offset = 0 /\ form.runTotals = ZeroTotals THEN NewRun
    ELSE IF /\ run.fromZero /\ ~run.ended
            /\ form.offset = run.next /\ form.runTotals = run.totals
         THEN run
         ELSE NoRun

runOnResult(data) ==
    IF ~run.fromZero \/ ~data.ok THEN run
    ELSE [fromZero |-> TRUE, ended |-> data.done, calls |-> run.calls + 1,
          sum |-> [f \in DOMAIN ZeroTotals |->
                     run.sum[f] + (IF f = "batches"
                                   THEN (IF data.summary.batchFetched > 0 THEN 1 ELSE 0)
                                   ELSE data.summary[f])],
          next |-> data.summary.nextOffset, totals |-> data.runTotals,
          auto |-> run.auto]

\* totalForUI = syncSummary?.masterTotal ?? masterTotal;
\* alreadyComplete = total is a number > 0 and syncOffset >= total
alreadyComplete ==
    LET syncSummary == IF ui.fetcherData # None /\ ui.fetcherData[1].ok
                       THEN Some(ui.fetcherData[1].summary) ELSE None
        totalForUI == IF syncSummary # None /\ syncSummary[1].masterTotal # None
                      THEN syncSummary[1].masterTotal
                      ELSE ui.masterTotal
    IN totalForUI # None /\ totalForUI[1] > 0 /\ ui.syncOffset >= totalForUI[1]

isSyncing == ui.fetcherState # "idle"

\* effects that chain the next batch with the totals the page held before the
\* result arrived
afterResultChainingOldTotals(u, data) ==
    LET u0 == [u EXCEPT !.fetcherState = "idle", !.fetcherData = Some(data)]
    IN IF ~data.ok THEN [ui |-> u0, submit |-> None]
       ELSE LET summary == data.summary
                batchId == summary.offset + summary.limit
                fresh == batchId # u.lastBatchId
                chain == u.autoSyncOn /\ summary.hasMore
                u1 == [u0 EXCEPT
                         !.syncOffset = summary.nextOffset,
                         !.lastBatchId = batchId,
                         !.latestRunTotals = IF fresh THEN data.runTotals ELSE @,
                         !.autoSyncOn = chain,
                         !.fetcherState = IF chain THEN "submitting" ELSE "idle"]
            IN [ui |-> u1,
                submit |-> IF chain
                           THEN Some([offset |-> summary.nextOffset, limit |-> u.syncLimit,
                                      runTotals |-> u.latestRunTotals])
                           ELSE None]

\* the two effects of GradeCollectionPage that run when a batch result arrives:
\* "keep totals updated from server response" and "auto-chain batches"
afterResult(u, data) ==
    LET u0 == [u EXCEPT !.fetcherState = "idle", !.fetcherData = Some(data)]
    IN IF ~data.ok THEN [ui |-> u0, submit |-> None]
       ELSE LET summary == data.summary
                batchId == summary.offset + summary.limit
                fresh == batchId # u.lastBatchId
                chain == u.autoSyncOn /\ summary.hasMore
                u1 == [u0 EXCEPT
                         !.syncOffset = summary.nextOffset,
                         !.lastBatchId = batchId,
                         !.latestRunTotals = IF fresh THEN data.runTotals ELSE @,
                         !.autoSyncOn = chain,
                         !.fetcherState = IF chain THEN "submitting" ELSE "idle"]
            IN [ui |-> u1,
                submit |-> IF chain
                           THEN Some([offset |-> summary.nextOffset, limit |-> u.syncLimit,
                                      runTotals |-> u1.latestRunTotals])
                           ELSE None]

\* the invocation in slot s returns `data`: the fetcher that awaits it delivers
\* it to the page; a result no fetcher awaits is dropped
Return(s, data) ==
    LET attached == isSyncing /\ ui.fetcherSlot = s
        d == IF attached THEN afterResult(ui, data) ELSE [ui |-> ui, submit |-> None]
    IN /\ ui' = d.ui
       /\ srv' = [srv EXCEPT ![s] = IF d.submit = None THEN IdleProc
                                    ELSE newInvocation(d.submit[1])]
       /\ run' = IF attached THEN runOnResult(data) ELSE run
       /\ replay' = IF replay.clean /\ data.ok
                    THEN [replay EXCEPT !.done = (replay.snap # None), !.from = None]
                    ELSE NoReplay

\* syncFetcher.submit(form): the request starts a server invocation in a free
\* slot; a submission still in flight is abandoned by the fetcher
Submit(form, u) ==
    /\ \E s \in Slots : srv[s].pc = "idle"
    /\ LET s == CHOOSE x \in Slots :
                  srv[x].pc = "idle" /\ \A y \in Slots : srv[y].pc = "idle" => x <= y
       IN /\ srv' = [srv EXCEPT ![s] = newInvocation(form)]
          /\ ui' = [u EXCEPT !.fetcherState = "submitting", !.fetcherSlot = s]
    /\ run' = [runOnSubmit(form) EXCEPT !.auto = u.autoSyncOn]
    /\ replay' = NoReplay

StartAutoSync ==
    /\ ~ui.autoSyncOn /\ ~alreadyComplete
    /\ Submit([offset |-> ui.syncOffset, limit |-> ui.syncLimit, runTotals |-> ZeroTotals],
              [ui EXCEPT !.latestRunTotals = ZeroTotals, !.lastBatchId = 0,
                         !.autoSyncOn = TRUE])
    /\ last' = [op |-> "start"]
    /\ UNCHANGED <<shopify, master, store>>

SyncNext ==
    /\ ~isSyncing /\ ~ui.autoSyncOn /\ ~alreadyComplete
    /\ Submit([offset |-> ui.syncOffset, limit |-> ui.syncLimit,
               runTotals |-> ui.latestRunTotals], ui)
    /\ last' = [op |-> "next"]
    /\ UNCHANGED <<shopify, master, store>>

StopAutoSync ==
    /\ ui.autoSyncOn
    /\ ui' = [ui EXCEPT !.autoSyncOn = FALSE]
    /\ last' = [op |-> "stop"]
    /\ UNCHANGED <<shopify, master, store, srv, run, replay>>

ResetSync ==
    /\ ~isSyncing
    /\ ui' = [ui EXCEPT !.autoSyncOn = FALSE, !.syncOffset = 0,
                        !.latestRunTotals = ZeroTotals, !.lastBatchId = 0]
    /\ run' = NoRun
    /\ last' = [op |-> "reset"]
    /\ UNCHANGED <<shopify, master, store, srv, replay>>

(***************************** the batch, step by step *********************)
\* Each action is one awaited call of the handler together with the code
\* that runs up to the next await.

gradeOrNull(grade) == IF grade = "" THEN NULL ELSE grade

\* the loop moves to the next key, or the handler returns the batch result
Advance(s, c, op) ==
    LET p == srv[s]
    IN IF p.idx < Len(p.keys)
       THEN /\ srv' = [srv EXCEPT ![s] = [p EXCEPT !.pc = "lookup", !.idx = p.idx + 1,
                                            !.c = c, !.existing = <<>>, !.prod = None]]
            /\ last' = [op |-> op, slot |-> s, ret |-> None]
            /\ UNCHANGED <<ui, run, replay>>
       ELSE /\ Return(s, batchResult(p, c))
            /\ last' = [op |-> op, slot |-> s, ret |-> Some(batchResult(p, c))]

\* count is the total the store reports with the page: Some(number of rows of
\* the table), or None when the response carries no count
SyncReadPage(s, count) ==
    LET p == [srv[s] EXCEPT !.masterTotal = count]
        rows == masterRange(p.offset, p.limit)
        keys == handleToGrade(rows)
        q == [p EXCEPT !.batchFetched = Len(rows), !.keys = keys]
    IN /\ p.pc = "page"
       /\ IF Len(rows) = 0
          THEN /\ Return(s, emptyResult(p))
               /\ last' = [op |-> "empty", slot |-> s, ret |-> Some(emptyResult(p))]
          ELSE IF Len(keys) = 0
          THEN /\ Return(s, batchResult(q, ZeroCounts))
               /\ last' = [op |-> "page", slot |-> s, ret |-> Some(batchResult(q, ZeroCounts))]
          ELSE /\ srv' = [srv EXCEPT ![s] = [q EXCEPT !.pc = "lookup", !.idx = 1]]
               /\ last' = [op |-> "page", slot |-> s, ret |-> None]
               /\ UNCHANGED <<ui, run, replay>>
       /\ UNCHANGED <<shopify, master, store>>

\* select("id,size").ilike("product_handle", handleRaw); the rows come back in
\* an order the store chooses
SyncLookup(s) ==
    LET p == srv[s]
        found == matching(store, p.keys[p.idx].handleRaw)
    IN /\ p.pc = "lookup"
       /\ \E order \in Perms(found) :
            srv' = [srv EXCEPT ![s] =
                      [p EXCEPT !.pc = IF found = {} THEN "fetch" ELSE "update",
                                !.existing = [i \in DOMAIN order |-> order[i].size]]]
       /\ last' = [op |-> "lookup", slot |-> s, ret |-> None]
       /\ UNCHANGED <<shopify, master, store, ui, run, replay>>

RECURSIVE mergedSizes(_)
mergedSizes(existing) ==
    IF existing = <<>> THEN <<>>
    ELSE (IF Head(existing) = None THEN <<>> ELSE Head(existing)[1])
         \o mergedSizes(Tail(existing))

\* an update that counts a handle once for every row it has updated
SyncUpdateCountingRows(s) ==
    LET p == srv[s]
        entry == p.keys[p.idx]
        mergedSizeArray == uniqStrings(mergedSizes(p.existing))
        count == SumCopies(matching(store, entry.handleRaw), store)
    IN /\ p.pc = "update"
       /\ store' = storeUpdate(store, entry.handleRaw, gradeOrNull(entry.grade),
                               IF Len(mergedSizeArray) > 0 THEN Some(mergedSizeArray)
                               ELSE None)
       /\ Advance(s, [p.c EXCEPT !.updatedHandles = @ + count, !.updatedRows = @ + count],
                  "update")
       /\ UNCHANGED <<shopify, master>>

SyncUpdate(s) ==
    LET p == srv[s]
        entry == p.keys[p.idx]
        mergedSizeArray == uniqStrings(mergedSizes(p.existing))
        count == SumCopies(matching(store, entry.handleRaw), store)
    IN /\ p.pc = "update"
       /\ store' = storeUpdate(store, entry.handleRaw, gradeOrNull(entry.grade),
                               IF Len(mergedSizeArray) > 0 THEN Some(mergedSizeArray)
                               ELSE None)
       /\ Advance(s, [p.c EXCEPT !.updatedHandles = @ + 1, !.updatedRows = @ + count],
                  "update")
       /\ UNCHANGED <<shopify, master>>

\* missingInShopify += 1
\* a product not found counted twice
countMissingTwice(c) == [c EXCEPT !.missingInShopify = @ + 2]

countMissing(c) == [c EXCEPT !.missingInShopify = @ + 1]

\* a fetch that counts a product without collections as missing
SyncFetchCountingSkipped(s) ==
    LET p == srv[s]
        prod == fetchProductByHandleWithCollectionsAndSizes(p.keys[p.idx].handleRaw)
    IN /\ p.pc = "fetch"
       /\ IF prod = None
          THEN Advance(s, countMissing(p.c), "missing")
          ELSE IF Len(prod[1].collections) = 0
          THEN Advance(s, countMissing(p.c), "skip")
          ELSE /\ srv' = [srv EXCEPT ![s] = [p EXCEPT !.pc = "upsert", !.prod = prod]]
               /\ last' = [op |-> "fetch", slot |-> s, ret |-> None]
               /\ UNCHANGED <<ui, run, replay>>
       /\ UNCHANGED <<shopify, master, store>>

SyncFetch(s) ==
    LET p == srv[s]
        prod == fetchProductByHandleWithCollectionsAndSizes(p.keys[p.idx].handleRaw)
    IN /\ p.pc = "fetch"
       /\ IF prod = None
          THEN Advance(s, countMissing(p.c), "missing")
          ELSE IF Len(prod[1].collections) = 0
          THEN Advance(s, p.c, "skip")
          ELSE /\ srv' = [srv EXCEPT ![s] = [p EXCEPT !.pc = "upsert", !.prod = prod]]
               /\ last' = [op |-> "fetch", slot |-> s, ret |-> None]
               /\ UNCHANGED <<ui, run, replay>>
       /\ UNCHANGED <<shopify, master, store>>

\* records for the first collection membership only
upsertRecordsOfFirst(prod, entry) ==
    [i \in {1} |->
        [pid |-> prod.id, cid |-> prod.collections[i], handle |-> prod.handle,
         grade |-> gradeOrNull(entry.grade),
         size |-> IF Len(prod.sizes) > 0 THEN Some(prod.sizes) ELSE None]]

upsertRecords(prod, entry) ==
    [i \in DOMAIN prod.collections |->
        [pid |-> prod.id, cid |-> prod.collections[i], handle |-> prod.handle,
         grade |-> gradeOrNull(entry.grade),
         size |-> IF Len(prod.sizes) > 0 THEN Some(prod.sizes) ELSE None]]

SyncUpsert(s) ==
    LET p == srv[s]
        records == upsertRecords(p.prod[1], p.keys[p.idx])
    IN /\ p.pc = "upsert"
       /\ ~upsertRejected(records)
       /\ store' = storeUpsert(store, records)
       /\ Advance(s, [p.c EXCEPT !.insertedProducts = @ + 1,
                                 !.insertedRows = @ + Len(records)], "insert")
       /\ UNCHANGED <<shopify, master>>

\* a failed catalog lookup taken for a product that is missing
SyncFailCountingMissing(s) ==
    /\ srv[s].pc \in {"page", "lookup", "update", "fetch", "upsert"}
    /\ IF srv[s].pc = "fetch"
       THEN Advance(s, countMissing(srv[s].c), "fail")
       ELSE /\ Return(s, errorResult)
            /\ last' = [op |-> "fail", slot |-> s, ret |-> Some(errorResult),
                        at |-> srv[s].pc, idx |-> srv[s].idx]
    /\ UNCHANGED <<shopify, master, store>>

\* a failure that puts the store back as the batch found it
SyncFailRollingBack(s) ==
    /\ srv[s].pc \in {"page", "lookup", "update", "fetch", "upsert"}
    /\ Return(s, errorResult)
    /\ last' = [op |-> "fail", slot |-> s, ret |-> Some(errorResult),
                at |-> srv[s].pc, idx |-> srv[s].idx]
    /\ store' = IF replay.from # None THEN replay.from[1] ELSE store
    /\ UNCHANGED <<shopify, master>>

\* the awaited Source Table, Mapping Store or Catalog Service call fails: the
\* catch block returns the error result
SyncFail(s) ==
    /\ srv[s].pc \in {"page", "lookup", "update", "fetch", "upsert"}
    /\ Return(s, errorResult)
    /\ last' = [op |-> "fail", slot |-> s, ret |-> Some(errorResult),
                at |-> srv[s].pc, idx |-> srv[s].idx]
    /\ UNCHANGED <<shopify, master, store>>

(***************************** deleteCollection, saveRow *******************)
FormIds == ProductIds \cup {" "}
FormCollectionIds == CollectionIds \cup {" "}

\* a delete filtered on the product id alone
DeleteCollectionOfProduct(pidRaw, cidRaw) ==
    LET productId == cleanText(pidRaw)
        collectionId == cleanText(cidRaw)
        ok == productId # "" /\ collectionId # ""
    IN /\ store' = IF ok
                   THEN storeDelete(store, {r \in storeRows : r.pid = productId})
                   ELSE store
       /\ replay' = NoReplay
       /\ last' = [op |-> "delete", ok |-> ok,
                   n |-> BagCardinality(store) - BagCardinality(store')]
       /\ UNCHANGED <<shopify, master, srv, ui, run>>

DeleteCollection(pidRaw, cidRaw) ==
    LET productId == cleanText(pidRaw)
        collectionId == cleanText(cidRaw)
        ok == productId # "" /\ collectionId # ""
    IN /\ store' = IF ok
                   THEN storeDelete(store, {r \in storeRows :
                                               r.pid = productId /\ r.cid = collectionId})
                   ELSE store
       /\ replay' = NoReplay
       /\ last' = [op |-> "delete", ok |-> ok,
                   n |-> BagCardinality(store) - BagCardinality(store')]
       /\ UNCHANGED <<shopify, master, srv, ui, run>>

MaxItems == 2
SaveGrades == {"8"}
CollectionGrades ==
    UNION {[1..n -> [id : CollectionIds, grade : SaveGrades]] : n \in 0..MaxItems}

\* the page submits the product's own handle and its variant sizes
saveRecords(productId, list) ==
    [i \in DOMAIN list |->
        [pid |-> productId, cid |-> list[i].id, handle |-> productOf(productId).handle,
         grade |-> gradeOrNull(cleanText(list[i].grade)),
         size |-> Some(productOf(productId).sizes)]]

\* a save that also adds the product to the submitted collections in the catalog
SaveRowAddingToCollections(productId, collectionGradesList) ==
    LET records == saveRecords(productId, collectionGradesList)
        ok == ~upsertRejected(records)
        added(p) == IF p.id = productId
                    THEN [p EXCEPT !.collections =
                             [i \in DOMAIN collectionGradesList |-> collectionGradesList[i].id]]
                    ELSE p
    IN /\ store' = IF Len(records) > 0
                   THEN (IF ok THEN storeUpsert(store, records) ELSE store)
                   ELSE storeDelete(store, {r \in storeRows : r.pid = productId})
       /\ shopify' = {added(p) : p \in shopify}
       /\ replay' = NoReplay
       /\ last' = [op |-> "save", ok |-> ok,
                   hit |-> Cardinality({i \in DOMAIN records :
                              \E r \in storeRows : sameKey(r, records[i])})]
       /\ UNCHANGED <<master, srv, ui, run>>

SaveRow(productId, collectionGradesList) ==
    LET records == saveRecords(productId, collectionGradesList)
        ok == ~upsertRejected(records)
    IN /\ store' = IF Len(records) > 0
                   THEN (IF ok THEN storeUpsert(store, records) ELSE store)
                   ELSE storeDelete(store, {r \in storeRows : r.pid = productId})
       /\ replay' = NoReplay
       /\ last' = [op |-> "save", ok |-> ok,
                   hit |-> Cardinality({i \in DOMAIN records :
                              \E r \in storeRows : sameKey(r, records[i])})]
       /\ UNCHANGED <<shopify, master, srv, ui, run>>

(***************************** the admin loader ****************************)
\* loader: the products of the catalog, each with the collections saved for it
\* in the Mapping Store, the collections of the catalog, and the Source Table's
\* row count, null when the count could not be read
AdminLoader(countFails) ==
    /\ last' = [op |-> "loader",
                products |-> {[id |-> p.id, handle |-> p.handle,
                               savedCollections |-> {r.cid : r \in {x \in storeRows : x.pid = p.id}}]
                              : p \in shopify},
                collections |-> UNION {{p.collections[i] : i \in DOMAIN p.collections}
                                       : p \in shopify},
                masterTotal |-> IF countFails THEN None ELSE Some(Len(master))]
    /\ UNCHANGED <<shopify, master, store, srv, ui, run, replay>>

(***************************** callers of the action ***********************)
\* Any client may post syncGradesBatch with its own offset, limit and runTotals;
\* no fetcher of the page awaits the result.
SomeTotals ==
    [batches |-> 1, uniqueHandles |-> 2, updatedHandles |-> 1, updatedRows |-> 1,
     insertedProducts |-> 0, insertedRows |-> 0, missingInShopify |-> 1]

idle == \A s \in Slots : srv[s].pc = "idle"

Invoke(form) ==
    /\ \E s \in Slots : srv[s].pc = "idle"
    /\ LET s == CHOOSE x \in Slots :
                  srv[x].pc = "idle" /\ \A y \in Slots : srv[y].pc = "idle" => x <= y
       IN srv' = [srv EXCEPT ![s] = newInvocation(form)]
    /\ replay' = IF idle
                  THEN [clean |-> TRUE, snap |-> None, done |-> FALSE, from |-> Some(store)]
                  ELSE NoReplay
    /\ last' = [op |-> "invoke"]
    /\ UNCHANGED <<shopify, master, store, ui, run>>

\* the caller runs the batch that has just returned once more, with the same
\* offset and limit
Replay ==
    /\ idle
    /\ replay.clean
    /\ last.op \in {"page", "update", "missing", "skip", "insert"}
    /\ last.ret # None
    /\ srv' = [srv EXCEPT ![1] = newInvocation(
                  [offset |-> last.ret[1].summary.offset,
                   limit |-> last.ret[1].summary.limit, runTotals |-> ZeroTotals])]
    /\ replay' = [clean |-> TRUE, snap |-> Some(store), done |-> FALSE,
                  from |-> Some(store)]
    /\ last' = [op |-> "replay"]
    /\ UNCHANGED <<shopify, master, store, ui, run>>

(***************************** specifications ******************************)
InitUi ==
    [syncOffset |-> 0, autoSyncOn |-> FALSE, latestRunTotals |-> ZeroTotals,
     lastBatchId |-> 0, fetcherState |-> "idle", fetcherSlot |-> 1,
     fetcherData |-> None, syncLimit |-> 1, masterTotal |-> None]

\* the loader's masterTotal is the table's row count, or null when the count
\* could not be read
InitWith(tables, limits, countMayFail) ==
    /\ shopify = Products
    /\ master \in tables
    /\ store = EmptyBag
    /\ srv = [s \in 1..MaxInFlight |-> IdleProc]
    /\ \E l \in limits,
          t \in {Some(Len(master))} \cup (IF countMayFail THEN {None} ELSE {}) :
         ui = [InitUi EXCEPT !.syncLimit = l, !.masterTotal = t]
    /\ run = NewRun
    /\ replay = NoReplay
    /\ last = [op |-> "init"]

\* the steps of a batch after its page has been read
SyncWork ==
    \/ \E s \in Slots : SyncLookup(s)
    \/ \E s \in Slots : SyncUpdate(s)
    \/ \E s \in Slots : SyncFetch(s)
    \/ \E s \in Slots : SyncUpsert(s)
    \/ \E s \in Slots : SyncFail(s)

\* a select with {count: "exact"} answers with the exact count of the table
SyncStep ==
    \/ \E s \in Slots : SyncReadPage(s, Some(Len(master)))
    \/ SyncWork

\* The three intents of the action under any caller, interleaved at every await.
SpecRows == 1
Forms == [offset : 0..SpecRows, limit : {MaxLimit}, runTotals : {ZeroTotals}]

Init == InitWith(Tables(SpecRows), {MaxLimit}, FALSE)

Next ==
    \/ SyncStep
    \/ \E form \in Forms : Invoke(form)
    \/ Replay
    \/ \E p \in FormIds, c \in FormCollectionIds : DeleteCollection(p, c)
    \/ \E p \in ProductIds, l \in CollectionGrades : SaveRow(p, l)

Spec == Init /\ [][Next]_vars

\* The page driving runs over every Source Table, with no other writer.
DriverInit == InitWith(Tables(MaxRows), 1..MaxLimit, TRUE)

DriverNext ==
    \/ SyncStep
    \/ StartAutoSync
    \/ SyncNext
    \/ StopAutoSync
    \/ ResetSync

DriverSpec == DriverInit /\ [][DriverNext]_vars

\* The page driving runs against a server that can run one invocation more
\* than the page's fetcher awaits: a submission made while a request is in
\* flight starts a second invocation, and the first runs on unawaited.
OverlapRows == 1

OverlapInit ==
    /\ shopify = Products
    /\ master \in Tables(OverlapRows)
    /\ store = EmptyBag
    /\ srv = [s \in 1..(MaxInFlight + 1) |-> IdleProc]
    /\ ui = [InitUi EXCEPT !.syncLimit = MaxLimit, !.masterTotal = Some(Len(master))]
    /\ run = NewRun
    /\ replay = NoReplay
    /\ last = [op |-> "init"]

OverlapSpec == OverlapInit /\ [][DriverNext]_vars

\* Any caller of syncGradesBatch with any form, with no other writer.
CallerRows == 2
AnyForms == [offset : 0..CallerRows, limit : 0..MaxLimit, runTotals : {ZeroTotals, SomeTotals}]

CallerInit == InitWith(Tables(CallerRows), {MaxLimit}, FALSE)

CallerNext ==
    \/ SyncStep
    \/ \E form \in AnyForms : Invoke(form)
    \/ Replay

CallerSpec == CallerInit /\ [][CallerNext]_vars

\* Any caller of syncGradesBatch over a catalog that has a product whose handle
\* is a pattern character of ilike, and whose collection is listed twice.
WildProducts ==
    Products \cup
    {[id |-> "P3", handle |-> "_", sizes |-> <<"L">>, collections |-> <<"c1", "c1">>]}

WildInit ==
    /\ shopify = WildProducts
    /\ master \in Tables(CallerRows)
    /\ store = EmptyBag
    /\ srv = [s \in 1..MaxInFlight |-> IdleProc]
    /\ ui = [InitUi EXCEPT !.syncLimit = MaxLimit, !.masterTotal = Some(Len(master))]
    /\ run = NewRun
    /\ replay = NoReplay
    /\ last = [op |-> "init"]

WildSpec == WildInit /\ [][CallerNext]_vars

\* The page driving runs against a store whose page responses may carry no count.
CountRows == 2

CountInit == InitWith(Tables(CountRows), 1..MaxLimit, TRUE)

CountNext ==
    \/ \E s \in Slots, count \in {Some(Len(master)), None} : SyncReadPage(s, count)
    \/ SyncWork
    \/ StartAutoSync
    \/ SyncNext
    \/ StopAutoSync
    \/ ResetSync

CountSpec == CountInit /\ [][CountNext]_vars

(***************************** grade parser ********************************)
\* A grade value is text: a sequence of one-character strings.
Digits == <<"0", "1", "2", "3", "4", "5", "6", "7", "8", "9">>

digitOf(ch) == (CHOOSE i \in DOMAIN Digits : Digits[i] = ch) - 1

isDigit(ch) == \E i \in DOMAIN Digits : Digits[i] = ch

\* String.prototype.trim on text
RECURSIVE trimStart(_)
trimStart(t) ==
    IF t # <<>> /\ Head(t) = " " THEN trimStart(Tail(t)) ELSE t

RECURSIVE trimEnd(_)
trimEnd(t) ==
    IF t # <<>> /\ t[Len(t)] = " " THEN trimEnd(SubSeq(t, 1, Len(t) - 1)) ELSE t

trim(t) == trimEnd(trimStart(t))

\* String.prototype.split(","): the pieces between the commas, empty ones kept
RECURSIVE splitFrom(_, _, _)
splitFrom(t, piece, out) ==
    IF t = <<>> THEN Append(out, piece)
    ELSE IF Head(t) = "," THEN splitFrom(Tail(t), <<>>, Append(out, piece))
    ELSE splitFrom(Tail(t), Append(piece, Head(t)), out)

split(t) == splitFrom(t, <<>>, <<>>)

RECURSIVE filterBoolean(_)
filterBoolean(pieces) ==
    IF pieces = <<>> THEN <<>>
    ELSE (IF Head(pieces) = <<>> THEN <<>> ELSE <<Head(pieces)>>)
         \o filterBoolean(Tail(pieces))

\* tokens kept although they are empty after trimming
splitGradesKeepingEmpty(value) ==
    LET text == IF value = None THEN <<>> ELSE value[1]
        pieces == split(text)
    IN [i \in DOMAIN pieces |-> trim(pieces[i])]

\* String(value || "").split(",").map((x) => x.trim()).filter(Boolean);
\* value is Some(text), or None for null
splitGrades(value) ==
    LET text == IF value = None THEN <<>> ELSE value[1]
        pieces == split(text)
    IN filterBoolean([i \in DOMAIN pieces |-> trim(pieces[i])])

\* Array.prototype.join(",")
RECURSIVE join(_)
join(tokens) ==
    IF tokens = <<>> THEN <<>>
    ELSE IF Len(tokens) = 1 THEN Head(tokens)
    ELSE Head(tokens) \o <<",">> \o join(Tail(tokens))

\* Number(token) of a trimmed non-empty token: Some(value) for decimal
\* digits, None (NaN) for anything else
RECURSIVE digitsValue(_, _)
digitsValue(t, acc) ==
    IF t = <<>> THEN acc ELSE digitsValue(Tail(t), 10 * acc + digitOf(Head(t)))

Number(token) ==
    IF \A i \in DOMAIN token : isDigit(token[i])
    THEN Some(digitsValue(token, 0)) ELSE None

\* (a, b) => Number(a) - Number(b); sort reads a NaN result as +0
compareGrades(a, b) ==
    IF Number(a) = None \/ Number(b) = None THEN 0
    ELSE Number(a)[1] - Number(b)[1]

\* new Set(): values in insertion order, each once
RECURSIVE addAll(_, _)
addAll(set, values) ==
    IF values = <<>> THEN set
    ELSE addAll(IF \E i \in DOMAIN set : set[i] = Head(values)
                THEN set ELSE Append(set, Head(values)),
                Tail(values))

seqRange(q) == {q[i] : i \in DOMAIN q}

\* the comparator is a consistent comparator of the values (ECMAScript,
\* Array.prototype.sort): its equalities and its orders are transitive
consistentCompare(values) ==
    \A a \in values, b \in values, c \in values :
        /\ (compareGrades(a, b) = 0 /\ compareGrades(b, c) = 0) => compareGrades(a, c) = 0
        /\ (compareGrades(a, b) < 0 /\ compareGrades(b, c) < 0) => compareGrades(a, c) < 0
        /\ (compareGrades(a, b) < 0 /\ compareGrades(b, c) = 0) => compareGrades(a, c) < 0
        /\ (compareGrades(a, b) = 0 /\ compareGrades(b, c) < 0) => compareGrades(a, c) < 0

\* a stable sort: v goes behind every element that does not sort after it
RECURSIVE insertSorted(_, _)
insertSorted(sorted, v) ==
    IF sorted = <<>> THEN <<v>>
    ELSE IF compareGrades(sorted[Len(sorted)], v) <= 0 THEN Append(sorted, v)
    ELSE Append(insertSorted(SubSeq(sorted, 1, Len(sorted) - 1), v), sorted[Len(sorted)])

RECURSIVE stableSortFrom(_, _)
stableSortFrom(values, sorted) ==
    IF values = <<>> THEN sorted
    ELSE stableSortFrom(Tail(values), insertSorted(sorted, Head(values)))

\* Array.from(gradeSet).sort((a, b) => Number(a) - Number(b)): the orders the
\* sort may return. With a consistent comparator it is the stable sorted
\* order; otherwise the order is implementation-defined.
sortGrades(values) ==
    IF consistentCompare(seqRange(values)) THEN {stableSortFrom(values, <<>>)}
    ELSE {[i \in DOMAIN values |-> values[p[i]]] : p \in Perms(DOMAIN values)}

(***************************** order reconciler ****************************)
\* the handles of the list that are in the set, each at its first place
RECURSIVE takeInOrder(_, _, _)
takeInOrder(list, supSet, ordered) ==
    IF list = <<>> THEN [ordered |-> ordered, supSet |-> supSet]
    ELSE LET key == cleanText(Head(list))
         IN IF key \in supSet
            THEN takeInOrder(Tail(list), supSet \ {key}, Append(ordered, key))
            ELSE takeInOrder(Tail(list), supSet, ordered)

\* a reorder that drops the handles the collection order does not name
reorderHandlesDroppingLeftovers(supabaseHandles, shopifyOrderedHandles) ==
    LET supSet == {cleanText(h) : h \in seqRange(supabaseHandles)} \ {""}
    IN takeInOrder(shopifyOrderedHandles, supSet, <<>>).ordered

reorderHandlesByShopifyOrder(supabaseHandles, shopifyOrderedHandles) ==
    LET supSet == {cleanText(h) : h \in seqRange(supabaseHandles)} \ {""}
        first == takeInOrder(shopifyOrderedHandles, supSet, <<>>)
    IN takeInOrder(supabaseHandles, first.supSet, first.ordered).ordered

(***************************** query endpoint *****************************)
\* The endpoint reads the Mapping Store through the columns product_handle,
\* collection_handle and grade: a row is [handle, chandle, grade], the grade
\* Some(text) or None for null.
jsonError(status, message) ==
    [status |-> status, json |-> TRUE, body |-> [ok |-> FALSE, error |-> message]]

\* new Response("Unauthorized", { status: 401 })
unauthorized == [status |-> 401, json |-> FALSE, body |-> "Unauthorized"]

\* the rows a select returns, in the order the store returns them
selectProduct(collectionHandle, productHandle) ==
    {r \in storeRows : r.chandle = collectionHandle /\ r.handle = productHandle}

selectCollection(collectionHandle) ==
    {r \in storeRows : r.chandle = collectionHandle /\ r.handle # NULL}

\* the grade tokens of the rows, each once, in the order met
RECURSIVE gradeSetOf(_, _)
gradeSetOf(rows, set) ==
    IF rows = <<>> THEN set
    ELSE gradeSetOf(Tail(rows), addAll(set, splitGrades(Head(rows).grade)))

RECURSIVE filterRows(_, _)
filterRows(rows, gradeSelected) ==
    IF rows = <<>> THEN <<>>
    ELSE (IF gradeSelected \in seqRange(splitGrades(Head(rows).grade))
          THEN <<Head(rows)>> ELSE <<>>)
         \o filterRows(Tail(rows), gradeSelected)

\* rows.map((r) => (r.product_handle || "").trim()).filter(Boolean)
RECURSIVE handlesOf(_)
handlesOf(rows) ==
    IF rows = <<>> THEN <<>>
    ELSE (IF cleanText(Head(rows).handle) = "" THEN <<>>
          ELSE <<cleanText(Head(rows).handle)>>)
         \o handlesOf(Tail(rows))

RECURSIVE rowsOfHandle(_, _)
rowsOfHandle(rows, h) ==
    IF rows = <<>> THEN <<>>
    ELSE (IF cleanText(Head(rows).handle) = h THEN <<Head(rows)>> ELSE <<>>)
         \o rowsOfHandle(Tail(rows), h)

\* gradeByHandle[h] = set ? Array.from(set).join(",") : ""
gradeByHandleOf(filteredRows, supabaseHandles) ==
    [h \in seqRange(supabaseHandles) |->
        join(gradeSetOf(rowsOfHandle(filteredRows, h), <<>>))]

\* if (h) handles.push(String(h).trim())
handlesInOrder(order) ==
    LET named == SelectSeq(order, LAMBDA h : h # "")
    IN [i \in DOMAIN named |-> cleanText(named[i])]

\* what the catalog answers to one page request: an errors array, an answer
\* without a products connection, or a page of edges with its pageInfo
ErrorAnswer == [kind |-> "error", handles |-> <<>>, hasNextPage |-> FALSE]

NoCollection == [kind |-> "none", handles |-> <<>>, hasNextPage |-> FALSE]

PageAnswer(handles, hasNextPage) ==
    [kind |-> "page", handles |-> handles, hasNextPage |-> hasNextPage]

\* while (hasNextPage): throw on json.errors, return [] without a products
\* connection, else push the page's handles; handles is the shared array
RECURSIVE runQueryFrom(_, _, _)
runQueryFrom(answers, i, handles) ==
    LET json == answers[i]
        read == handles \o handlesInOrder(json.handles)
    IN IF json.kind = "error"
       THEN [threw |-> TRUE, value |-> <<>>, handles |-> handles]
       ELSE IF json.kind = "none"
       THEN [threw |-> FALSE, value |-> <<>>, handles |-> handles]
       ELSE IF json.hasNextPage
       THEN runQueryFrom(answers, i + 1, read)
       ELSE [threw |-> FALSE, value |-> read, handles |-> read]

\* runQuery: handles.length = 0; cursor = null; then the pages from the first
runQuery(answers) == runQueryFrom(answers, 1, <<>>)

\* a fetch that returns what it had read when both queries failed
fetchShopifyCollectionHandlesPartial(catalog) ==
    LET first == runQuery(catalog.sortKey)
        second == runQuery(catalog.plain)
    IN IF ~first.threw THEN [threw |-> FALSE, value |-> first.value]
       ELSE [threw |-> FALSE, value |-> IF second.threw THEN second.handles
                                        ELSE second.value]

\* a fetch that gives up when the query with the sort key fails
fetchShopifyCollectionHandlesOnce(catalog) ==
    LET first == runQuery(catalog.sortKey)
    IN [threw |-> FALSE, value |-> IF first.threw THEN <<>> ELSE first.value]

\* a fetch whose second query goes on with the handles the first had read
fetchShopifyCollectionHandlesCarrying(catalog) ==
    LET first == runQuery(catalog.sortKey)
        second == runQueryFrom(catalog.plain, 1, first.handles)
    IN IF ~first.threw THEN [threw |-> FALSE, value |-> first.value]
       ELSE IF ~second.threw THEN [threw |-> FALSE, value |-> second.value]
       ELSE [threw |-> FALSE, value |-> <<>>]

\* fetchShopifyCollectionHandlesInOrder: the collection's order read with the
\* sort key, else without it, else the empty list; threw says whether an
\* exception leaves the function
fetchShopifyCollectionHandlesInOrder(catalog) ==
    LET first == runQuery(catalog.sortKey)
        second == runQuery(catalog.plain)
    IN IF ~first.threw THEN [threw |-> FALSE, value |-> first.value]
       ELSE IF ~second.threw THEN [threw |-> FALSE, value |-> second.value]
       ELSE [threw |-> FALSE, value |-> <<>>]

\* try { shopifyOrderedHandles = await fetch...() } catch { shopifyOrderedHandles = [] }
orderedHandlesOf(catalog) ==
    LET fetched == fetchShopifyCollectionHandlesInOrder(catalog)
    IN IF fetched.threw THEN <<>> ELSE fetched.value

\* the body of a product-mode answer
productAnswer(collectionHandle, productHandle, grades) ==
    [status |-> 200, json |-> TRUE,
     body |-> [ok |-> TRUE, mode |-> "product", collection_handle |-> collectionHandle,
               product_handle |-> productHandle, grades |-> grades,
               grades_csv |-> join(grades)]]

\* a collection-mode answer whose grades are those of the filtered rows
collectionAnswerOfFiltered(collectionHandle, gradeSelected, rows, available_grades, catalog) ==
    LET filteredRows == IF gradeSelected # <<>> THEN filterRows(rows, gradeSelected)
                        ELSE rows
        supabaseHandles == addAll(<<>>, handlesOf(filteredRows))
        shopifyOrderedHandles == orderedHandlesOf(catalog)
        handles == IF shopifyOrderedHandles # <<>>
                   THEN reorderHandlesByShopifyOrder(supabaseHandles, shopifyOrderedHandles)
                   ELSE supabaseHandles
    IN [status |-> 200, json |-> TRUE,
        body |-> [ok |-> TRUE, collection_handle |-> collectionHandle,
                  grade_selected |-> IF gradeSelected # <<>> THEN Some(gradeSelected)
                                     ELSE None,
                  total_handles |-> Len(handles), handles |-> handles,
                  available_grades |-> gradeSetOf(filteredRows, <<>>),
                  gradeByHandle |-> gradeByHandleOf(filteredRows, supabaseHandles)]]

\* the body of a collection-mode answer; page and limit are never read
collectionAnswer(collectionHandle, gradeSelected, rows, available_grades, catalog) ==
    LET filteredRows == IF gradeSelected # <<>> THEN filterRows(rows, gradeSelected)
                        ELSE rows
        supabaseHandles == addAll(<<>>, handlesOf(filteredRows))
        shopifyOrderedHandles == orderedHandlesOf(catalog)
        handles == IF shopifyOrderedHandles # <<>>
                   THEN reorderHandlesByShopifyOrder(supabaseHandles, shopifyOrderedHandles)
                   ELSE supabaseHandles
    IN [status |-> 200, json |-> TRUE,
        body |-> [ok |-> TRUE, collection_handle |-> collectionHandle,
                  grade_selected |-> IF gradeSelected # <<>> THEN Some(gradeSelected)
                                     ELSE None,
                  total_handles |-> Len(handles), handles |-> handles,
                  available_grades |-> available_grades,
                  gradeByHandle |-> gradeByHandleOf(filteredRows, supabaseHandles)]]

\* a loader that does not check the parameter
missingNeverChecked(request) == FALSE

\* if (!collectionHandle) return 400 before any store or catalog call
missingBeforeQuery(request) == cleanText(request.collection_handle) = ""

\* loader: one request answered. env.auth is what the proxy verification
\* gives (an admin context, none, or a throw), env.fault what the store call
\* does (nothing, an error result, a throw), env.catalog what the catalog
\* answers. The answer is recorded with the rows as the store returned them.
Loader(request, env) ==
    LET collectionHandle == cleanText(request.collection_handle)
        gradeSelected == IF request.grade = None THEN <<>> ELSE trim(request.grade[1])
        productHandle == cleanText(request.product_handle)
        found == IF productHandle # ""
                 THEN selectProduct(collectionHandle, productHandle)
                 ELSE selectCollection(collectionHandle)
        answered(res, rows, queried, called) ==
            last' = [op |-> "query", request |-> request, env |-> env, rows |-> rows,
                     queried |-> queried, called |-> called, res |-> res]
    IN /\ last.op = "init"
       /\ IF env.auth = "throws"
          THEN answered(jsonError(500, "Server error"), <<>>, FALSE, FALSE)
          ELSE IF env.auth = "none"
          THEN answered(unauthorized, <<>>, FALSE, FALSE)
          ELSE IF missingBeforeQuery(request)
          THEN answered(jsonError(400, "Missing collection_handle"), <<>>, FALSE, FALSE)
          ELSE IF env.fault = "throws"
          THEN answered(jsonError(500, "Server error"), <<>>, TRUE, FALSE)
          ELSE IF env.fault = "error"
          THEN answered(jsonError(500, "Supabase error"), <<>>, TRUE, FALSE)
          ELSE \E rows \in Perms(found) :
                 IF productHandle # ""
                 THEN \E grades \in sortGrades(gradeSetOf(rows, <<>>)) :
                        answered(productAnswer(collectionHandle, productHandle, grades),
                                 rows, TRUE, FALSE)
                 ELSE \E available_grades \in sortGrades(gradeSetOf(rows, <<>>)) :
                        answered(collectionAnswer(collectionHandle, gradeSelected, rows,
                                                  available_grades, env.catalog),
                                 rows, TRUE, TRUE)
       /\ UNCHANGED <<shopify, master, store, srv, ui, run, replay>>

(***************************** endpoint specifications ********************)
MaxStoreRows == 2   \* most rows of the Mapping Store the endpoint reads
MaxText == 4        \* longest grade text given to splitGrades
MaxHandles == 3     \* longest handle list given to the reorder

QueryRows == {
    [handle |-> "a", chandle |-> "j", grade |-> Some(<<"7", ",", "8">>)],
    [handle |-> "b", chandle |-> "j", grade |-> Some(<<>>)],
    [handle |-> "a", chandle |-> "j", grade |-> Some(<<"9">>)],
    [handle |-> "b", chandle |-> "j", grade |-> None],
    [handle |-> "c", chandle |-> "j", grade |-> Some(<<"b", ",", "a">>)],
    [handle |-> " a", chandle |-> "j", grade |-> Some(<<"1", "0", ",", " ", "8", ",">>)],
    [handle |-> NULL, chandle |-> "j", grade |-> Some(<<"7">>)],
    [handle |-> " ", chandle |-> "j", grade |-> Some(<<"8">>)],
    [handle |-> "a", chandle |-> "k", grade |-> Some(<<"7">>)],
    [handle |-> "c", chandle |-> "j", grade |-> Some(<<"9", ",", "b", ",", "7">>)]}

Requests ==
    [collection_handle : {"j", " ", NULL},
     grade : {None, Some(<<"8">>), Some(<<" ", "b">>)},
     product_handle : {NULL, "a", "c"},
     page : {None}, limit : {None}]
    \cup [collection_handle : {"j"}, grade : {None}, product_handle : {NULL},
          page : {Some(1), Some(2)}, limit : {Some(1)}]

\* a listing read whole in one page, and one that fails on its second page
Listing(order) == <<PageAnswer(order, FALSE)>>

Broken(order) == <<PageAnswer(order, TRUE), ErrorAnswer>>

Catalogs ==
    LET orders == {<<"c", "a">>, <<"b", "", "a", "b">>}
    IN {[sortKey |-> Listing(o), plain |-> Listing(o)] : o \in orders \cup {<<>>}}
       \cup {[sortKey |-> Broken(o), plain |-> Listing(o)] : o \in orders}
       \cup {[sortKey |-> Broken(o), plain |-> Broken(o)] : o \in orders}

NoCatalog == [sortKey |-> Listing(<<>>), plain |-> Listing(<<>>)]

Envs ==
    [auth : {"none", "throws"}, fault : {"none"}, catalog : {NoCatalog}]
    \cup [auth : {"admin"}, fault : {"error", "throws"}, catalog : {NoCatalog}]
    \cup [auth : {"admin"}, fault : {"none"}, catalog : Catalogs]

QueryInit ==
    /\ shopify = Products
    /\ master = <<>>
    /\ \E rows \in SUBSET QueryRows :
         /\ Cardinality(rows) <= MaxStoreRows
         /\ store = SetToBag(rows)
    /\ srv = [s \in 1..MaxInFlight |-> IdleProc]
    /\ ui = [InitUi EXCEPT !.syncLimit = MaxLimit, !.masterTotal = Some(0)]
    /\ run = NewRun
    /\ replay = NoReplay
    /\ last = [op |-> "init"]

QueryNext == \E request \in Requests, env \in Envs : Loader(request, env)

QuerySpec == QueryInit /\ [][QueryNext]_vars

\* the texts of at most n characters
Texts(n) == UNION {[1..k -> {"7", "8", ",", " "}] : k \in 0..n}

HandleLists(handles, n) == UNION {[1..k -> handles] : k \in 0..n}

SplitGrades(value) ==
    /\ last.op = "init"
    /\ last' = [op |-> "split", value |-> value, tokens |-> splitGrades(value)]
    /\ UNCHANGED <<shopify, master, store, srv, ui, run, replay>>

\* the loader passes the reorder handles that are trimmed and not empty
Reorder(supabaseHandles, shopifyOrderedHandles) ==
    /\ last.op = "init"
    /\ last' = [op |-> "reorder", mapping |-> supabaseHandles,
                catalogOrder |-> shopifyOrderedHandles,
                handles |-> reorderHandlesByShopifyOrder(supabaseHandles,
                                                         shopifyOrderedHandles)]
    /\ UNCHANGED <<shopify, master, store, srv, ui, run, replay>>

\* the pages a batch may read: rows with padded, upper-case and null handles
\* and with blank grades
MaxPage == 3
PageRows == [Handle : {"a", "A", " a", "b", NULL}, Grade : {"", "7", "8", " "}]
Pages == UNION {[1..k -> PageRows] : k \in 1..MaxPage}

\* the map a batch builds from its page
HandleToGrade(rows) ==
    /\ last.op = "init"
    /\ last' = [op |-> "dedup", rows |-> rows, keys |-> handleToGrade(rows)]
    /\ UNCHANGED <<shopify, master, store, srv, ui, run, replay>>

\* the answers one query can get: pages that announce a next page, then a
\* last page, an error or an answer without the collection
MaxListPages == 2
Edges == {<<>>, <<"a">>, <<"b", "">>}
LastAnswers == {ErrorAnswer, NoCollection} \cup {PageAnswer(e, FALSE) : e \in Edges}
Attempts ==
    UNION {{a \in [1..k -> LastAnswers \cup {PageAnswer(e, TRUE) : e \in Edges}] :
               /\ a[k] \in LastAnswers
               /\ \A i \in 1..(k - 1) : a[i].hasNextPage} :
           k \in 1..MaxListPages}

\* the ordered listing of a collection, for what the two queries are answered
FetchHandles(catalog) ==
    /\ last.op = "init"
    /\ last' = [op |-> "list", catalog |-> catalog,
                res |-> fetchShopifyCollectionHandlesInOrder(catalog)]
    /\ UNCHANGED <<shopify, master, store, srv, ui, run, replay>>

\* The pagination loop of runQuery, request by request. The catalog holds the
\* pages of the collection, each with its edges, its hasNextPage and its
\* endCursor (the page the cursor leads to, or none); a request without a
\* cursor is answered the first page.
MaxRequests == 3
MaxCollectionPages == 2
CollectionPages ==
    UNION {[1..k -> [handles : {<<>>, <<"a">>}, hasNextPage : BOOLEAN,
                     endCursor : {None} \cup {Some(j) : j \in 1..k}]] :
           k \in 1..MaxCollectionPages}

PagingInit ==
    /\ shopify = Products
    /\ master = <<>>
    /\ store = EmptyBag
    /\ srv = [s \in 1..MaxInFlight |-> IdleProc]
    /\ ui = InitUi
    /\ run = NewRun
    /\ replay = NoReplay
    /\ \E pages \in CollectionPages :
         last = [op |-> "runQuery", pages |-> pages, handles |-> <<>>,
                 cursor |-> None, hasNextPage |-> TRUE, asked |-> <<>>]

\* one turn of while (hasNextPage): the request with after: cursor, the push
\* of the page's handles, hasNextPage and cursor taken from pageInfo
RunQueryPage ==
    /\ last.op = "runQuery" /\ last.hasNextPage
    /\ Len(last.asked) < MaxRequests
    /\ LET productsConn == IF last.cursor = None THEN last.pages[1]
                           ELSE last.pages[last.cursor[1]]
       IN last' = [last EXCEPT !.handles = @ \o handlesInOrder(productsConn.handles),
                               !.hasNextPage = productsConn.hasNextPage,
                               !.cursor = productsConn.endCursor,
                               !.asked = Append(@, last.cursor)]
    /\ UNCHANGED <<shopify, master, store, srv, ui, run, replay>>

\* return handles
RunQueryReturn ==
    /\ last.op = "runQuery" /\ ~last.hasNextPage
    /\ last' = [op |-> "listed", handles |-> last.handles, asked |-> last.asked]
    /\ UNCHANGED <<shopify, master, store, srv, ui, run, replay>>

PagingNext ==
    \/ RunQueryPage
    \/ RunQueryReturn

PagingSpec == PagingInit /\ [][PagingNext]_vars

HelperInit == InitWith({<<>>}, {MaxLimit}, FALSE)

HelperNext ==
    \/ \E rows \in Pages : HandleToGrade(rows)
    \/ \E catalog \in [sortKey : Attempts, plain : Attempts] : FetchHandles(catalog)
    \/ \E value \in {None} \cup {Some(t) : t \in Texts(MaxText)} : SplitGrades(value)
    \/ \E m \in HandleLists({"a", "b", "c"}, MaxHandles),
          c \in HandleLists({"a", "b", "c", "x", ""}, MaxHandles) : Reorder(m, c)

HelperSpec == HelperInit /\ [][HelperNext]_vars

(***************************** the whole system ****************************)
\* Every operation of the two routes over one Mapping Store. The admin route
\* and the endpoint read different columns of a row: the admin operations act
\* on the stores whose rows carry the admin route's columns.
adminView == \A r \in storeRows : "pid" \in DOMAIN r

SystemInit == Init \/ QueryInit

SystemNext ==
    \/ adminView /\ Next
    \/ adminView /\ \E countFails \in BOOLEAN : AdminLoader(countFails)
    \/ QueryNext

SystemSpec == SystemInit /\ [][SystemNext]_vars

(***************************** claims **************************************)
CeilDiv(n, d) == (n + d - 1) \div d

\* the distinct non-blank handles of a table, compared case-insensitively
distinctHandles(table) ==
    {toLowerCase(cleanText(table[i].Handle)) : i \in DOMAIN table} \ {""}

\* C1 as stated: a chain of batches from offset 0 over a table of N rows ends
\* (done = true) at batch number ceil(N/limit) exactly, and at no earlier one.
C1_EndsAtCeil ==
    (run.fromZero /\ run.calls > 0)
        => (run.ended <=> run.calls = CeilDiv(Len(master), ui.syncLimit))

\* C1 amended: the chain ends at invocation number max(1, ceil(N/limit)): an
\* empty table still takes the one invocation that finds the empty page.
C1_EndsAtCeilOrFirst ==
    (run.fromZero /\ run.calls > 0)
        => (run.ended <=> run.calls = Max(1, CeilDiv(Len(master), ui.syncLimit)))

C1_Witness ==
    run.fromZero /\ run.ended /\ run.calls = 2 /\ Len(master) = 3 /\ ui.syncLimit = 2

\* C2 as stated: when a chain from offset 0 is done, runTotals.uniqueHandles
\* is the number of distinct handles (case-insensitive) of the whole table.
C2_UniqueAcrossTable ==
    (run.fromZero /\ run.ended)
        => run.totals.uniqueHandles = Cardinality(distinctHandles(master))


\* the handler in slot s has answered its caller in this step
returned(s) ==
    /\ last'.op \in {"empty", "page", "update", "missing", "skip", "insert", "fail"}
    /\ last'.slot = s
    /\ last'.ret # None

attachedTo(s) == isSyncing /\ ui.fetcherSlot = s

\* C4: a failing call inside a batch makes the action answer {ok: false, error}
\* with no summary, nextOffset or runTotals; the page keeps its offset and its
\* running totals, which are still those of the failed request, so the next
\* submission retries the same batch.
C4_FailureKeepsOffset ==
    [][\A s \in Slots :
        (returned(s) /\ last'.op = "fail") =>
            /\ ~last'.ret[1].ok
            /\ DOMAIN last'.ret[1] = {"ok", "intent", "error"}
            /\ attachedTo(s) =>
                 /\ ui'.fetcherData = last'.ret
                 /\ ui'.fetcherState = "idle"
                 /\ ui'.syncOffset = ui.syncOffset
                 /\ ui'.latestRunTotals = ui.latestRunTotals
                 /\ ui'.syncOffset = srv[s].offset
                 /\ ui'.latestRunTotals = srv[s].runTotals]_vars

C4_Witness ==
    /\ last.op = "fail"
    /\ ui.fetcherData = Some(errorResult)
    /\ ui.syncOffset > 0
    /\ ui.latestRunTotals.batches > 0
    /\ store # EmptyBag

Stats ==
    {"batchFetched", "uniqueHandles", "updatedHandles", "updatedRows",
     "insertedProducts", "insertedRows", "missingInShopify"}

\* C9: when the page read at the request's offset succeeds with zero rows, the
\* action answers ok with done = true, every batch statistic zero and the
\* runTotals the caller supplied, and writes nothing to the Mapping Store.
C9_EmptyPageIsDone ==
    [][\A s \in Slots :
        (/\ srv[s].pc = "page"
         /\ srv'[s] # srv[s]
         /\ last'.op # "fail"
         /\ Len(masterRange(srv[s].offset, srv[s].limit)) = 0) =>
            /\ returned(s)
            /\ last'.ret[1].ok
            /\ last'.ret[1].done
            /\ \A f \in Stats : last'.ret[1].summary[f] = 0
            /\ last'.ret[1].runTotals = srv[s].runTotals
            /\ store' = store]_vars

C9_Witness ==
    /\ last.op = "empty"
    /\ last.ret # None
    /\ last.ret[1].runTotals = SomeTotals
    /\ Len(master) > 0
    /\ store # EmptyBag

\* C10: a successful non-empty batch returns the caller's runTotals plus its
\* own counts field by field (batches plus one); along a chain begun from
\* zeros the returned totals never decrease and equal the sum of the batch
\* summaries returned so far.
C10_TotalsAreSums ==
    [][/\ \A s \in Slots :
            (/\ returned(s)
             /\ last'.ret[1].ok
             /\ last'.ret[1].summary.batchFetched > 0) =>
                \A f \in DOMAIN ZeroTotals :
                    last'.ret[1].runTotals[f] =
                        srv[s].runTotals[f]
                        + (IF f = "batches" THEN 1 ELSE last'.ret[1].summary[f])
       /\ run'.fromZero => run'.totals = run'.sum
       /\ (run.fromZero /\ run'.fromZero /\ run'.calls = run.calls + 1) =>
            \A f \in DOMAIN ZeroTotals : run'.totals[f] >= run.totals[f]]_vars

C10_Witness ==
    /\ run.fromZero
    /\ run.calls = 2
    /\ run.totals.batches = 2
    /\ run.totals.updatedRows = 2
    /\ run.totals.insertedRows = 2
    /\ run.totals.uniqueHandles = 2

rowsOf(B, pid, cid) == {r \in BagToSet(B) : r.pid = pid /\ r.cid = cid}

C5_ReplayConverges ==
    replay.done => store = replay.snap[1]

C5_Witness ==
    /\ replay.done
    /\ BagCardinality(store) = 2
    /\ last.ret # None
    /\ last.ret[1].summary.updatedRows = 2

\* C6 as stated: a successful saveRow for product p leaves exactly the
\* submitted associations for p (none when the submitted set is empty) and
\* leaves the rows of every other product as they were.
C6_SaveReplaces ==
    [][\A p \in ProductIds, l \in CollectionGrades :
        (SaveRow(p, l) /\ last'.ok) =>
            LET records == saveRecords(p, l)
            IN /\ {r \in BagToSet(store') : r.pid = p}
                    = {records[i] : i \in DOMAIN records}
               /\ \A r \in BagToSet(store) \cup BagToSet(store') :
                    r.pid # p => CopiesIn(r, store') = CopiesIn(r, store)]_vars

\* C7: deleteCollection with a product id and a collection id removes the row
\* of that key and no other row; when there is no such row the store is left
\* as it was, and the action succeeds either way.
C7_DeleteExactlyKey ==
    [][\A p \in ProductIds, c \in CollectionIds :
        DeleteCollection(p, c) =>
            /\ last'.ok
            /\ \A r \in BagToSet(store) \cup BagToSet(store') :
                 CopiesIn(r, store') =
                    IF r.pid = p /\ r.cid = c THEN 0 ELSE CopiesIn(r, store)
            /\ rowsOf(store, p, c) = {} => store' = store]_vars

C7_Witness ==
    /\ last.op = "delete"
    /\ last.ok
    /\ last.n = 1
    /\ BagCardinality(store) = 3

\* C8: when the batch reaches a handle with no Mapping Store row and the
\* catalog has no product of that handle, missingInShopify grows by exactly
\* one, no other count changes, and the Mapping Store is not written.
C8_MissingCountsOnce ==
    [][\A s \in Slots :
        (/\ srv[s].pc = "fetch"
         /\ last'.op \in {"missing", "skip", "fetch"}
         /\ last'.slot = s
         /\ fetchProductByHandleWithCollectionsAndSizes(
                srv[s].keys[srv[s].idx].handleRaw) = None) =>
            /\ last'.op = "missing"
            /\ store' = store
            /\ IF last'.ret = None
               THEN srv'[s].c = [srv[s].c EXCEPT !.missingInShopify = @ + 1]
               ELSE \A f \in DOMAIN ZeroCounts :
                        last'.ret[1].summary[f] =
                            srv[s].c[f] + (IF f = "missingInShopify" THEN 1 ELSE 0)]_vars

C8_Witness ==
    /\ last.op = "missing"
    /\ last.ret # None
    /\ last.ret[1].summary.missingInShopify = 1
    /\ last.ret[1].runTotals.missingInShopify = 1
    /\ store # EmptyBag

firstIndex(q, x) ==
    CHOOSE i \in DOMAIN q : q[i] = x /\ \A k \in 1..(i - 1) : q[k] # x

\* C11: the reorder returns every distinct mapping handle exactly once and
\* nothing else; the handles the catalog order names come first, in the order
\* of their first place in the catalog order, and the others follow in the
\* order the mapping list had them.
C11_ReorderIsBijection ==
    last.op = "reorder" =>
        LET m == last.mapping
            c == last.catalogOrder
            out == last.handles
        IN /\ \A i \in DOMAIN out, j \in DOMAIN out : out[i] = out[j] => i = j
           /\ seqRange(out) = seqRange(m)
           /\ \A i \in DOMAIN out, j \in DOMAIN out :
                i < j =>
                    /\ (out[i] \in seqRange(c) /\ out[j] \in seqRange(c)) =>
                          firstIndex(c, out[i]) < firstIndex(c, out[j])
                    /\ out[i] \notin seqRange(c) =>
                          /\ out[j] \notin seqRange(c)
                          /\ firstIndex(m, out[i]) < firstIndex(m, out[j])

C11_Witness ==
    /\ last.op = "reorder"
    /\ last.mapping = <<"a", "b", "c">>
    /\ last.catalogOrder = <<"c", "a">>
    /\ last.handles = <<"c", "a", "b">>

\* the places where the pieces of a text begin: before the text and behind
\* each comma
pieceStarts(text) == {0} \cup {i \in DOMAIN text : text[i] = ","}

pieceEnd(text, start) ==
    Min(Len(text) + 1,
        CHOOSE e \in (start + 1)..(Len(text) + 1) :
            /\ e = Len(text) + 1 \/ text[e] = ","
            /\ \A k \in (start + 1)..(e - 1) : text[k] # ",")

inked(text, start) ==
    {i \in (start + 1)..(pieceEnd(text, start) - 1) : text[i] # " "}

\* C12: splitGrades answers every value; no token is empty or blank, and the
\* tokens are the comma-separated pieces of the text that hold more than
\* whitespace, each without the whitespace around it, in their order, a piece
\* that occurs twice being kept twice.
C12_SplitGradesTokens ==
    last.op = "split" =>
        LET text == IF last.value = None THEN <<>> ELSE last.value[1]
            tokens == last.tokens
            starts == {st \in pieceStarts(text) : inked(text, st) # {}}
            rank(st) == Cardinality({x \in starts : x <= st})
        IN /\ \A i \in DOMAIN tokens :
                /\ tokens[i] # <<>>
                /\ \E k \in DOMAIN tokens[i] : tokens[i][k] # " "
           /\ Len(tokens) = Cardinality(starts)
           /\ \A st \in starts :
                LET lo == CHOOSE i \in inked(text, st) : \A k \in inked(text, st) : i <= k
                    hi == CHOOSE i \in inked(text, st) : \A k \in inked(text, st) : i >= k
                IN tokens[rank(st)] = SubSeq(text, lo, hi)

C12_Witness ==
    /\ last.op = "split"
    /\ last.value = Some(<<"7", ",", " ", "7">>)
    /\ last.tokens = << <<"7">>, <<"7">> >>

\* the last request was answered in collection mode / in product mode
collectionMode ==
    /\ last.op = "query"
    /\ last.res.status = 200
    /\ cleanText(last.request.product_handle) = ""

productMode ==
    /\ last.op = "query"
    /\ last.res.status = 200
    /\ cleanText(last.request.product_handle) # ""

\* the rows of the requested collection that have a product handle
collectionRows ==
    {r \in storeRows : r.chandle = cleanText(last.request.collection_handle)
                       /\ r.handle # NULL}

tokensOf(rows) == UNION {seqRange(splitGrades(r.grade)) : r \in rows}

noRepeats(q) == \A i \in DOMAIN q, j \in DOMAIN q : q[i] = q[j] => i = j

numericAscending(grades) ==
    \A i \in DOMAIN grades, j \in DOMAIN grades :
        (i < j /\ Number(grades[i]) # None /\ Number(grades[j]) # None) =>
            Number(grades[i])[1] <= Number(grades[j])[1]

\* C14: in product mode the answer's grades are the distinct grade tokens of
\* the rows that match both the collection handle and the product handle,
\* sorted, and grades_csv is that sequence joined by commas.
C14_ProductGradesSorted ==
    productMode =>
        LET body == last.res.body
            hits == {r \in storeRows :
                        /\ r.chandle = cleanText(last.request.collection_handle)
                        /\ r.handle = cleanText(last.request.product_handle)}
        IN /\ seqRange(body.grades) = tokensOf(hits)
           /\ noRepeats(body.grades)
           /\ numericAscending(body.grades)
           /\ body.grades_csv = join(body.grades)

\* the place of a character in the order of the code units
Alphabet == <<" ", ",", "0", "1", "2", "3", "4", "5", "6", "7", "8", "9", "a", "b", "l">>

codeOf(ch) == CHOOSE i \in DOMAIN Alphabet : Alphabet[i] = ch

RECURSIVE lexLessEq(_, _)
lexLessEq(a, b) ==
    IF a = <<>> THEN TRUE
    ELSE IF b = <<>> THEN FALSE
    ELSE IF Head(a) = Head(b) THEN lexLessEq(Tail(a), Tail(b))
    ELSE codeOf(Head(a)) < codeOf(Head(b))

lexicalAscending(grades) ==
    \A i \in DOMAIN grades, j \in DOMAIN grades :
        (i < j /\ Number(grades[i]) = None /\ Number(grades[j]) = None) =>
            lexLessEq(grades[i], grades[j])

aggregatedGrades ==
    IF productMode THEN last.res.body.grades ELSE last.res.body.available_grades

\* C16: the aggregated grade list of an answer (available_grades in
\* collection mode, grades in product mode) has its numeric tokens in
\* ascending order of value and its other tokens in lexical order, whatever
\* the order in which the rows were read.
C16_GradesInTotalOrder ==
    (productMode \/ collectionMode) =>
        /\ numericAscending(aggregatedGrades)
        /\ lexicalAscending(aggregatedGrades)

\* the rows of the collection that pass the request's grade filter, and the
\* product handles they name
passingRows ==
    LET g == IF last.request.grade = None THEN <<>> ELSE trim(last.request.grade[1])
    IN IF g = <<>> THEN collectionRows
       ELSE {r \in collectionRows : g \in seqRange(splitGrades(r.grade))}

namedHandles == {cleanText(r.handle) : r \in passingRows} \ {""}

\* C15 as stated: in collection mode gradeByHandle[h] of every returned handle
\* h is the distinct grade tokens of h's rows joined by commas, or the text
\* "all" when h's rows carry no grade token.
C15_GradeByHandleOrAll ==
    collectionMode =>
        \A h \in seqRange(last.res.body.handles) :
            LET tokens == tokensOf({r \in passingRows : cleanText(r.handle) = h})
                summary == last.res.body.gradeByHandle[h]
            IN IF tokens = {} THEN summary = <<"a", "l", "l">>
               ELSE /\ seqRange(split(summary)) = tokens
                    /\ noRepeats(split(summary))

\* C17 as stated: in collection mode the answer holds only the handles of the
\* requested page: page counts from 1, limit is clamped to 1..48 and is 24
\* when absent.
C17_HandlesOfRequestedPage ==
    collectionMode =>
        LET page == IF last.request.page = None THEN 1 ELSE Max(1, last.request.page[1])
            limit == IF last.request.limit = None THEN 24
                     ELSE Max(1, Min(48, last.request.limit[1]))
            from == (page - 1) * limit + 1
        IN \E p \in Perms(namedHandles) :
              last.res.body.handles = SubSeq(p, from, Min(Len(p), from + limit - 1))

\* C18 as stated: every failure answer of the endpoint is a JSON body with
\* ok: false and an error text.
C18_FailuresAreJson ==
    (last.op = "query" /\ last.res.status # 200) =>
        /\ last.res.json
        /\ last.res.body.ok = FALSE
        /\ last.res.body.error # ""

\* the request's collection_handle is missing or blank
blankCollection == cleanText(last.request.collection_handle) = ""

\* C19 as stated: a request without a collection_handle is answered 400 with
\* ok: false, and neither the Mapping Store nor the catalog is called.
C19_MissingCollectionIs400 ==
    (last.op = "query" /\ blankCollection) =>
        /\ last.res.status = 400
        /\ last.res.json
        /\ last.res.body.ok = FALSE
        /\ ~last.queried
        /\ ~last.called

\* C19 amended: a request without a collection_handle never reaches the
\* Mapping Store or the catalog; when the proxy verification has given an
\* admin context it is answered 400 with ok: false.
C19_VerifiedMissingCollectionIs400 ==
    (last.op = "query" /\ blankCollection) =>
        /\ ~last.queried
        /\ ~last.called
        /\ last.res.status # 200
        /\ last.env.auth = "admin" =>
             /\ last.res.status = 400
             /\ last.res.json
             /\ last.res.body.ok = FALSE

C19_Witness ==
    /\ last.op = "query"
    /\ last.request.collection_handle = " "
    /\ last.env.auth = "admin"
    /\ last.res = jsonError(400, "Missing collection_handle")
    /\ store # EmptyBag

\* the first row, in the order the store returned them, that passes the
\* filter and names the handle
firstRow(h) ==
    CHOOSE i \in DOMAIN last.rows :
        /\ last.rows[i] \in passingRows /\ cleanText(last.rows[i].handle) = h
        /\ \A k \in 1..(i - 1) :
              ~(last.rows[k] \in passingRows /\ cleanText(last.rows[k].handle) = h)

catalogFailed ==
    /\ \E i \in DOMAIN last.env.catalog.sortKey : last.env.catalog.sortKey[i] = ErrorAnswer
    /\ \E i \in DOMAIN last.env.catalog.plain : last.env.catalog.plain[i] = ErrorAnswer

\* C20: a request that reaches the catalog is answered 200 with ok: true
\* whether or not the collection order can be read; the handles are always
\* the handles the Mapping Store rows name, and when the order cannot be read
\* they stand in the order the store returned them.
C20_OrderFailureFallsBack ==
    (/\ last.op = "query"
     /\ last.env.auth = "admin" /\ last.env.fault = "none"
     /\ ~blankCollection
     /\ cleanText(last.request.product_handle) = "") =>
        LET handles == last.res.body.handles
        IN /\ last.res.status = 200
           /\ last.res.body.ok
           /\ seqRange(handles) = namedHandles
           /\ noRepeats(handles)
           /\ catalogFailed =>
                \A i \in DOMAIN handles, j \in DOMAIN handles :
                    i < j => firstRow(handles[i]) < firstRow(handles[j])

C20_Witness ==
    /\ collectionMode
    /\ catalogFailed
    /\ last.env.catalog.plain[1].handles = <<"c", "a">>
    /\ last.res.body.handles = <<"a", "c">>

\* C21: no operation of the system (admin loader, saveRow, deleteCollection,
\* sync batch, query endpoint) writes to the Catalog Service or to the Source
\* Table: every step leaves both unchanged, only the Mapping Store is written.
C21_CatalogNeverWritten == [][shopify' = shopify /\ master' = master]_vars

\* a batch has read a product from the catalog and written its rows to the store
C21_Witness ==
    /\ last.op = "insert"
    /\ \E r \in storeRows : \E p \in shopify : r.pid = p.id
    /\ shopify = Products

\* C22: every successful batch over a non-empty page answers nextOffset =
\* offset + limit, hasMore = (nextOffset < total count) when the store reported
\* the count and hasMore = true when it did not, and done = not hasMore; an
\* answer without a count is done only when its page had no rows.
C22_HasMoreFromCount ==
    [][\A s \in Slots :
        (returned(s) /\ last'.ret[1].ok) =>
            LET data == last'.ret[1]
                summary == data.summary
            IN /\ summary.masterTotal \in {None, Some(Len(master))}
               /\ summary.batchFetched > 0 =>
                    /\ summary.nextOffset = srv[s].offset + srv[s].limit
                    /\ summary.hasMore = (IF summary.masterTotal = None THEN TRUE
                                          ELSE summary.nextOffset < Len(master))
                    /\ data.done = ~summary.hasMore
               /\ summary.masterTotal = None =>
                    (data.done <=> summary.batchFetched = 0)]_vars

\* a batch that read the last rows of the table without a count, and says more
C22_Witness ==
    /\ last.op \in {"page", "update", "missing", "skip", "insert"}
    /\ last.ret # None
    /\ last.ret[1].summary.masterTotal = None
    /\ last.ret[1].summary.batchFetched > 0
    /\ last.ret[1].summary.nextOffset >= Len(master)
    /\ last.ret[1].summary.hasMore /\ ~last.ret[1].done

\* the rows of a page whose trimmed handle, in lower case, is key
rowsOfKey(rows, key) ==
    {i \in DOMAIN rows : cleanText(rows[i].Handle) # ""
                         /\ toLowerCase(cleanText(rows[i].Handle)) = key}

\* C23: a batch processes exactly one entry per distinct lower-cased non-blank
\* handle of its page; the entry keeps the raw casing of the first row with
\* that handle, and its grade is the grade of the first row with that handle
\* whose grade is not empty, or empty when no such row has one.
C23_OneEntryPerHandle ==
    last.op = "dedup" =>
        LET rows == last.rows
            keys == last.keys
            graded(key) == {i \in rowsOfKey(rows, key) : cleanText(rows[i].Grade) # ""}
        IN /\ {keys[j].key : j \in DOMAIN keys} =
                 {toLowerCase(cleanText(rows[i].Handle)) : i \in DOMAIN rows} \ {""}
           /\ \A j, k \in DOMAIN keys : keys[j].key = keys[k].key => j = k
           /\ \A j \in DOMAIN keys :
                 LET of == rowsOfKey(rows, keys[j].key)
                     first == CHOOSE i \in of : \A x \in of : i <= x
                 IN /\ keys[j].handleRaw = cleanText(rows[first].Handle)
                    /\ keys[j].grade =
                         IF graded(keys[j].key) = {} THEN ""
                         ELSE LET g == CHOOSE i \in graded(keys[j].key) :
                                          \A x \in graded(keys[j].key) : i <= x
                              IN cleanText(rows[g].Grade)

\* a page whose first row of a handle has no grade and whose later rows, in
\* another casing, have two different ones
C23_Witness ==
    /\ last.op = "dedup"
    /\ last.rows = <<[Handle |-> "A", Grade |-> " "], [Handle |-> " a", Grade |-> "8"],
                     [Handle |-> "a", Grade |-> "7"]>>
    /\ last.keys = <<[key |-> "a", handleRaw |-> "A", grade |-> "8"]>>

\* the counts of the batch in slot s after the step
countsAfter(s) == IF last'.ret = None THEN srv'[s].c ELSE last'.ret[1].summary

\* the sizes of the rows, as a set
sizesOf(rows) ==
    UNION {IF r.size = None THEN {} ELSE {r.size[1][i] : i \in DOMAIN r.size[1]} : r \in rows}

\* a size array that is the trimmed, non-empty union of the sizes, each once
\* whatever its case; the column is null when there is none
mergedOf(size, sizes) ==
    LET wanted == {toLowerCase(cleanText(x)) : x \in sizes} \ {""}
    IN IF wanted = {} THEN size = None
       ELSE /\ size # None
            /\ {toLowerCase(size[1][i]) : i \in DOMAIN size[1]} = wanted
            /\ \A i, j \in DOMAIN size[1] :
                 toLowerCase(size[1][i]) = toLowerCase(size[1][j]) => i = j
            /\ \A i \in DOMAIN size[1] : size[1][i] = cleanText(size[1][i])

C24_PatternWitness ==
    /\ last.op = "update"
    /\ \E r, q \in storeRows :
         /\ r.handle = "_" /\ q.handle = "a"
         /\ r.size = q.size /\ r.size # None /\ Len(r.size[1]) = 3

\* the distinct collection memberships of the product in the catalog
membershipsOf(pid) ==
    UNION {{p.collections[i] : i \in DOMAIN p.collections} : p \in {q \in shopify : q.id = pid}}

\* C25: when the batch handles a handle whose lookup found no row and the
\* catalog returns a product with k >= 1 collection memberships, one upsert
\* writes exactly k rows, one for each membership, all with the product's id,
\* the handle's grade and the product's size list; the rows of other keys are
\* left as they were, and the batch counts one inserted product and k inserted
\* rows and changes no other count.
C25_InsertsOneRowPerMembership ==
    [][\A s \in Slots :
        (srv[s].pc = "upsert" /\ last'.op = "insert" /\ last'.slot = s) =>
            LET entry == srv[s].keys[srv[s].idx]
                prod == srv[s].prod[1]
                cols == membershipsOf(prod.id)
                k == Cardinality(cols)
                written == {r \in BagToSet(store') : r.pid = prod.id /\ r.cid \in cols}
            IN /\ k >= 1
               /\ matching(store, entry.handleRaw) = {}
               /\ Cardinality(written) = k
               /\ \A c \in cols : SumCopies(rowsOf(store', prod.id, c), store') = 1
               /\ \A r \in written :
                    /\ r.grade = gradeOrNull(entry.grade)
                    /\ r.handle = prod.handle
                    /\ mergedOf(r.size, {x \in UNION {{p.sizes[i] : i \in DOMAIN p.sizes}
                                               : p \in {q \in shopify : q.id = prod.id}} : TRUE})
               /\ \A r, q \in written : r.size = q.size
               /\ BagCardinality(store') = BagCardinality(store) + k
               /\ \A r \in BagToSet(store) : CopiesIn(r, store') = CopiesIn(r, store)
               /\ \A f \in DOMAIN ZeroCounts :
                    countsAfter(s)[f] =
                        srv[s].c[f]
                        + (CASE f = "insertedProducts" -> 1
                             [] f = "insertedRows" -> k
                             [] OTHER -> 0)]_vars

\* a batch has inserted the two rows of a product with two memberships
C25_Witness ==
    /\ last.op = "insert"
    /\ last.ret # None
    /\ last.ret[1].summary.insertedProducts = 1
    /\ last.ret[1].summary.insertedRows = 2
    /\ \A c \in membershipsOf("P1") : \E r \in storeRows : r.pid = "P1" /\ r.cid = c

\* C26: when the batch handles a handle whose lookup found no row and the
\* catalog returns a product with no collection membership, the handle is
\* skipped: the store is not written and none of the five counts changes; the
\* handle is still one of the batch's unique handles.
C26_NoMembershipIsSkipped ==
    [][\A s \in Slots :
        (/\ srv[s].pc = "fetch"
         /\ last'.op \in {"missing", "skip", "fetch"}
         /\ last'.slot = s
         /\ fetchProductByHandleWithCollectionsAndSizes(
                srv[s].keys[srv[s].idx].handleRaw) # None
         /\ membershipsOf(fetchProductByHandleWithCollectionsAndSizes(
                srv[s].keys[srv[s].idx].handleRaw)[1].id) = {}) =>
            /\ last'.op = "skip"
            /\ store' = store
            /\ \A f \in DOMAIN ZeroCounts : countsAfter(s)[f] = srv[s].c[f]
            /\ last'.ret # None =>
                 /\ last'.ret[1].summary.uniqueHandles = Len(srv[s].keys)
                 /\ last'.ret[1].runTotals.uniqueHandles =
                        srv[s].runTotals.uniqueHandles + Len(srv[s].keys)]_vars

\* a batch of one handle, whose product has no collection, has returned
C26_Witness ==
    /\ last.op = "skip"
    /\ last.ret # None
    /\ last.ret[1].summary.uniqueHandles = 1
    /\ \A f \in DOMAIN ZeroCounts : last.ret[1].summary[f] = 0

\* C27: when the catalog lookup for a handle fails with a GraphQL error, the
\* batch ends with the error result {ok: false, error}: the result carries no
\* summary and no totals, the handle is counted as missing nowhere, and the
\* page keeps the totals it had.
C27_LookupErrorAborts ==
    [][\A s \in Slots :
        (srv[s].pc = "fetch" /\ last'.op = "fail" /\ last'.slot = s) =>
            /\ last'.ret = Some(errorResult)
            /\ DOMAIN last'.ret[1] = {"ok", "intent", "error"}
            /\ ~last'.ret[1].ok
            /\ store' = store
            /\ ui'.latestRunTotals = ui.latestRunTotals
            /\ run'.totals = run.totals]_vars

\* the catalog lookup of the second handle of a batch has failed, and the page
\* has counted no missing product
C27_Witness ==
    /\ last.op = "fail"
    /\ last.at = "fetch"
    /\ last.idx = 2
    /\ ~last.ret[1].ok
    /\ ui.latestRunTotals.missingInShopify = 0

\* the stores a batch may leave when it handles the entry on the store B
handled(B, entry) ==
    LET found == matching(B, entry.handleRaw)
        prod == fetchProductByHandleWithCollectionsAndSizes(entry.handleRaw)
        merged(order) == uniqStrings(mergedSizes([i \in DOMAIN order |-> order[i].size]))
    IN IF found # {}
       THEN {storeUpdate(B, entry.handleRaw, gradeOrNull(entry.grade),
                         IF Len(merged(order)) > 0 THEN Some(merged(order)) ELSE None)
             : order \in Perms(found)}
       ELSE IF prod = None \/ Len(prod[1].collections) = 0 THEN {B}
       ELSE {storeUpsert(B, upsertRecords(prod[1], entry))}

RECURSIVE handledUpTo(_, _, _)
handledUpTo(Bs, keys, n) ==
    IF n <= 0 THEN Bs
    ELSE UNION {handled(B, keys[n]) : B \in handledUpTo(Bs, keys, n - 1)}

\* C28: when a batch, the only writer, aborts while it processes its k-th
\* handle, the error result rolls nothing back: the store is the store the
\* batch began on with the writes of handles 1..k-1 applied in order, and
\* nothing of handles k and later.
C28_NoRollback ==
    [][\A s \in Slots :
        (last'.op = "fail" /\ last'.slot = s /\ replay.clean /\ replay.from # None) =>
            /\ store' = store
            /\ store \in handledUpTo({replay.from[1]}, srv[s].keys, srv[s].idx - 1)]_vars

\* a batch has failed at its second handle after it inserted the rows of the first
C28_Witness ==
    /\ last.op = "fail"
    /\ last.idx = 2
    /\ last.at \in {"lookup", "update", "fetch", "upsert"}
    /\ BagCardinality(store) = 2
    /\ \A r \in storeRows : r.pid = "P1"

\* whether a query is answered an error on one of its pages
rejected(answers) == \E i \in DOMAIN answers : answers[i].kind = "error"

\* whether a query finds the collection on every page it asks for
found(answers) == \A i \in DOMAIN answers : answers[i].kind = "page"

\* the handles a query's pages name, page after page, trimmed
RECURSIVE namesOf(_)
namesOf(answers) ==
    IF answers = <<>> THEN <<>>
    ELSE LET named == SelectSeq(Head(answers).handles, LAMBDA h : h # "")
         IN [i \in DOMAIN named |-> cleanText(named[i])] \o namesOf(Tail(answers))

\* C29: the ordered listing of a collection never raises; it is the listing
\* read with the sort key when no page of that query is answered an error;
\* when one is, it is the whole listing read again without the sort key; when
\* that query is answered an error too, it is empty; and a query that finds
\* no collection gives the empty listing.
C29_ListingFallsBack ==
    last.op = "list" =>
        LET first == last.catalog.sortKey
            second == last.catalog.plain
            used == IF rejected(first) THEN second ELSE first
        IN /\ ~last.res.threw
           /\ (rejected(first) /\ rejected(second)) => last.res.value = <<>>
           /\ (~rejected(used) /\ found(used)) => last.res.value = namesOf(used)
           /\ (~rejected(used) /\ used[1].kind = "none") => last.res.value = <<>>

\* the query with the sort key has failed on its second page, and the listing
\* is the two pages read without the sort key
C29_Witness ==
    /\ last.op = "list"
    /\ last.catalog.sortKey = <<PageAnswer(<<"a">>, TRUE), ErrorAnswer>>
    /\ last.catalog.plain = <<PageAnswer(<<"b", "">>, TRUE), PageAnswer(<<"a">>, FALSE)>>
    /\ last.res = [threw |-> FALSE, value |-> <<"b", "a">>]

\* C30: at most one invocation of the sync batch is running at any time.
C30_OneBatchInFlight ==
    Cardinality({s \in Slots : srv[s].pc # "idle"}) <= 1

\* the fetcher awaits a batch submitted with auto-sync on, and the operator
\* has stopped auto-sync since
stoppedBatch ==
    /\ run.auto /\ ~ui.autoSyncOn
    /\ isSyncing /\ srv[ui.fetcherSlot].pc # "idle"

\* C31: stopping auto-sync leaves the batch in flight running; from then on
\* the batch stays awaited until it returns, its successful result sets the
\* driver's offset to its nextOffset and the driver's totals to its
\* runTotals, its return submits nothing, and while auto-sync is off only
\* Sync all and Sync next submit a batch.
C31_StoppedBatchCompletes ==
    [][LET s == ui.fetcherSlot
           returns == returned(s)
       IN /\ (ui.autoSyncOn /\ ~ui'.autoSyncOn /\ isSyncing /\ isSyncing') => srv' = srv
          /\ stoppedBatch =>
                \/ /\ ~returns
                   /\ srv'[s].pc # "idle" /\ ui'.fetcherSlot = s /\ ui'.fetcherState # "idle"
                \/ /\ returns
                   /\ \A x \in Slots : srv'[x].pc # "page" \/ srv'[x] = srv[x]
                   /\ ui'.fetcherState = "idle"
                   /\ last'.ret[1].ok =>
                        /\ ui'.syncOffset = last'.ret[1].summary.nextOffset
                        /\ ui'.latestRunTotals = last'.ret[1].runTotals
          /\ (~ui.autoSyncOn /\ \E x \in Slots : srv'[x].pc = "page" /\ srv'[x] # srv[x])
                => last'.op \in {"start", "next"}]_vars

\* C32: in a run with auto-sync on, the result of the awaited batch sets the
\* persisted offset to its nextOffset; when it reports more rows, the next
\* batch is submitted at that nextOffset, with the same limit and with the
\* runTotals the result carries, and nextOffset is the end of the range the
\* batch has read; nothing else submits a batch while auto-sync is on, and
\* the persisted offset moves only with such a result or with a reset.
C32_ChainIsContiguous ==
    [][/\ \A s \in Slots :
            (returned(s) /\ attachedTo(s) /\ last'.ret[1].ok) =>
                LET r == last'.ret[1]
                    sm == r.summary
                IN /\ ui'.syncOffset = sm.nextOffset
                   /\ (ui.autoSyncOn /\ sm.hasMore) =>
                        /\ srv'[s].pc = "page"
                        /\ srv'[s].offset = sm.nextOffset
                        /\ srv'[s].limit = sm.limit
                        /\ srv'[s].runTotals = r.runTotals
                        /\ sm.nextOffset = sm.offset + sm.limit
                        /\ sm.batchFetched =
                             Cardinality({i \in DOMAIN master :
                                            sm.offset < i /\ i <= sm.nextOffset})
       /\ (ui.autoSyncOn /\ \E x \in Slots : srv'[x].pc = "page" /\ srv'[x] # srv[x]) =>
             \E s \in Slots : /\ returned(s) /\ attachedTo(s)
                              /\ last'.ret[1].ok /\ last'.ret[1].summary.hasMore
       /\ ui'.syncOffset # ui.syncOffset =>
             \/ last'.op = "reset"
             \/ \E s \in Slots : returned(s) /\ attachedTo(s) /\ last'.ret[1].ok]_vars

\* the second batch of a chain has returned and the third is submitted where
\* the second ended, with the totals of two batches
C32_Witness ==
    /\ ui.autoSyncOn /\ isSyncing
    /\ "ret" \in DOMAIN last /\ last.ret # None
    /\ last.ret[1].ok /\ last.ret[1].summary.hasMore
    /\ last.ret[1].summary.offset = 1
    /\ ui.syncOffset = 2
    /\ srv[ui.fetcherSlot].pc = "page"
    /\ srv[ui.fetcherSlot].offset = 2
    /\ srv[ui.fetcherSlot].runTotals.batches = 2

\* C33: once a batch result has arrived and no batch is in flight, auto-sync
\* is off.
C33_IdleMeansAutoSyncOff ==
    (ui.fetcherData # None /\ ~isSyncing) => ~ui.autoSyncOn

\* C34: a successful batch result counts at least as many updated rows as
\* updated handles.
C34_UpdatedRowsCoverHandles ==
    ("ret" \in DOMAIN last /\ last.ret # None /\ last.ret[1].ok) =>
        last.ret[1].summary.updatedRows >= last.ret[1].summary.updatedHandles

\* the handles a batch counts as updated, inserted or missing
countedHandles(c) == c.updatedHandles + c.insertedProducts + c.missingInShopify

\* the keys of a batch whose product is in the catalog without any collection
keysWithoutCollections(keys) ==
    {i \in DOMAIN keys :
        LET prod == fetchProductByHandleWithCollectionsAndSizes(keys[i].handleRaw)
        IN prod # None /\ Len(prod[1].collections) = 0}

\* C35: every handle of a batch adds one to exactly one of updatedHandles,
\* insertedProducts and missingInShopify, or to none of them when the catalog
\* has its product without any collection; so in a successful summary the
\* three counters sum to uniqueHandles less the handles found without a
\* collection, and uniqueHandles is at most batchFetched.
C35_CountersPartitionHandles ==
    [][\A s \in Slots :
        LET p == srv[s]
            after == countsAfter(s)
            took(pc, op) == p.pc = pc /\ last'.op = op /\ last'.slot = s
            one(f) == /\ after[f] = p.c[f] + 1
                      /\ countedHandles(after) = countedHandles(p.c) + 1
        IN /\ took("update", "update") => one("updatedHandles")
           /\ took("fetch", "missing") => one("missingInShopify")
           /\ took("upsert", "insert") => one("insertedProducts")
           /\ took("fetch", "skip") =>
                /\ countedHandles(after) = countedHandles(p.c)
                /\ p.idx \in keysWithoutCollections(p.keys)
           /\ (returned(s) /\ last'.ret[1].ok) =>
                LET sm == last'.ret[1].summary
                IN /\ countedHandles(sm) <= sm.uniqueHandles
                   /\ sm.uniqueHandles <= sm.batchFetched
                   /\ sm.uniqueHandles - countedHandles(sm)
                        = Cardinality(keysWithoutCollections(p.keys))]_vars

\* a batch of two rows has returned: one handle inserted, the other found in
\* the catalog without a collection and counted nowhere
C35_Witness ==
    /\ last.op = "skip" /\ last.ret # None /\ last.ret[1].ok
    /\ last.ret[1].summary.batchFetched = 2
    /\ last.ret[1].summary.uniqueHandles = 2
    /\ last.ret[1].summary.insertedProducts = 1
    /\ countedHandles(last.ret[1].summary) = 1

\* C36: the pagination loop of the ordered retrieval asks for the first page
\* of the collection once.
C36_FirstPageAskedOnce ==
    last.op \in {"runQuery", "listed"} =>
        Cardinality({i \in DOMAIN last.asked : last.asked[i] = None}) <= 1

\* C37: when the query with the sort key is answered an error after it has
\* read handles, and the query without it is answered no error, the listing
\* is exactly the handles of the second query's pages, in their order, each
\* as often as those pages name it (none when that query finds no collection).
C37_FallbackStartsAfresh ==
    (/\ last.op = "list"
     /\ rejected(last.catalog.sortKey)
     /\ namesOf(last.catalog.sortKey) # <<>>
     /\ ~rejected(last.catalog.plain)) =>
        last.res.value = IF found(last.catalog.plain)
                         THEN namesOf(last.catalog.plain) ELSE <<>>

\* the first query had read the handle a before it failed, the second names
\* it once, and the listing has it once
C37_Witness ==
    /\ last.op = "list"
    /\ last.catalog.sortKey = <<PageAnswer(<<"a">>, TRUE), ErrorAnswer>>
    /\ last.catalog.plain = <<PageAnswer(<<"a">>, FALSE)>>
    /\ last.res.value = <<"a">>

====
